---- MODULE Spec2Model ----
(***************************************************************************)
(* Graph knowledge construction engine of oomai                           *)
(* (src/function_tools/core_graph_ops.py).                                 *)
(*                                                                         *)
(* The store is a sequence of nodes and a sequence of relationships; a     *)
(* node's identity is its position.  The operations of one GraphOpsCtx     *)
(* are coroutines: each task runs one operation at a time, and every       *)
(* await of the source is a step boundary of the model.  The asyncio lock  *)
(* of the context is the variable lock.                                    *)
(***************************************************************************)
EXTENDS Integers, Sequences, FiniteSets, Bags, TLC

\* ---------------------------------------------------------------- bounds
MaxCalls == 2      \* operations a Context starts (Spec)
MaxDeepCalls == 3  \* operations a Context starts (SpecDeep)
MaxNodes == 3      \* nodes the store may hold
MaxEdges == 2      \* relationships the store may hold
MaxToolCalls == 11 \* tool calls of one turn
MaxBatch == 2      \* tool calls of one response

\* ---------------------------------------------------------------- inputs
Tasks == {"t1", "t2"}
Names == {"A", "B"}
Descs == {"d0", "d1", "d3"}
RelTypes == {"ENABLES"}
PropMaps == {{}, {"explanation"}}

NodeArgs ==
  ({"Idea"} \X Names \X Descs) \cup ({"Party"} \X Names \X {"d0", "d1"})
     \cup {<<"EmTech", "A", "d0">>}

\* read operations: two queries the grammar accepts (nodes collected into
\* a list, a property returned under an alias) and one it rejects; the
\* arguments of find_node and dfs
Queries == {"MATCH (n) RETURN collect(n) AS ns",
            "MATCH (n) RETURN n.embedding AS emb",
            "MATCH (n"}
FindArgs == {<<"d0", "Idea", 1, TRUE>>, <<"d1", "Idea", 25, TRUE>>,
             <<"d0", "Idea", 25, FALSE>>}
DfsArgs == {"A", ""} \X {"Idea"} \X {-1, 0, 1, 2}

\* what the store session may raise from execute_read
StoreErrors == {"CypherSyntaxError", "ServiceUnavailable", "TransientError"}

None == "<None>"
NoEmb == -1

\* ------------------------------------------------------- program constants
SmartTypes == {"Convergence", "Capability", "Milestone", "Trend", "Idea",
               "Bet", "LTC", "LAC"}
EmTechSentinel == "Do not create new EmTech type nodes. EmTechs are reference data, use existing ones."
Threshold == 80          \* WHERE score >= 0.8, in hundredths
IndexTopK == 100         \* queryNodes($index_name, 100, $vector)
CandidateLimit == 10     \* LIMIT 10

\* --------------------------------------------------- external collaborators
\* The embedding client maps a description to a vector; the vector index
\* scores two vectors by their similarity (hundredths).
\* "v0" .. "v11" are the descriptions of a filled index, one step apart
IndexDescs == <<"v0", "v1", "v2", "v3", "v4", "v5", "v6", "v7", "v8", "v9",
                "v10", "v11">>

Embed(d) ==
  CASE d = "d0" -> 0 [] d = "d1" -> 7 [] d = "d3" -> 21
    [] \E k \in DOMAIN IndexDescs : IndexDescs[k] = d ->
         (CHOOSE k \in DOMAIN IndexDescs : IndexDescs[k] = d) - 1
    [] OTHER -> 63

Abs(x) == IF x < 0 THEN -x ELSE x

Score(v, w) == 100 - Abs(v - w)

\* Python truthiness of an optional string
Truthy(s) == s # None /\ s # ""

\* a or b
Or(a, b) == IF Truthy(a) THEN a ELSE b

Min(a, b) == IF a < b THEN a ELSE b

\* -------------------------------------------------------------------- state
VARIABLES nodes, edges, node_name_mapping, lock, task, calls_left, turn

vars == <<nodes, edges, node_name_mapping, lock, task, calls_left, turn>>

\* the state of one GraphOpsCtx and its store
ctxVars == <<nodes, edges, node_name_mapping, lock, task, calls_left>>

IdleTask ==
  [op |-> "none", pc |-> "idle",
   node_type |-> None, name |-> None, description |-> None,
   new_embedding |-> NoEmb, similar_nodes |-> <<>>, idx |-> 0,
   verdicts |-> <<>>, parse_errors |-> 0,
   found_same_name |-> None, found_id |-> 0,
   updated_name |-> None, updated_description |-> None,
   source_name |-> None, target_name |-> None,
   relationship_type |-> None, properties |-> {},
   actual_source_name |-> None, actual_target_name |-> None,
   raced |-> FALSE, upserted |-> FALSE,
   query |-> None, query_text |-> None, top_k |-> 0, depth |-> 0,
   found_nodes |-> {}, attempts |-> 0,
   result |-> <<"none", None>>]

\* no turn is modelled around the operations of the Context
NoTurn == [host |-> None]

\* The stores a new Context may find: the empty store, or the store an
\* earlier Context left behind after create_node("Idea", "A", "d0").
InitialStores ==
  {<<>>,
   <<[type |-> "Idea", name |-> "A", description |-> "d0", embedding |-> Embed("d0")]>>}

\* GraphOpsCtx(neo4jdriver, lock): an unlocked lock, an empty mapping
NewContext(budget) ==
  /\ nodes \in InitialStores
  /\ edges = EmptyBag
  /\ node_name_mapping = <<>>
  /\ lock = None
  /\ task = [t \in Tasks |-> IdleTask]
  /\ calls_left = budget
  /\ turn = NoTurn

Init == NewContext(MaxCalls)

InitDeep == NewContext(MaxDeepCalls)

\* dict.get(name, name)
Resolve(mapping, name) ==
  IF name \in DOMAIN mapping THEN mapping[name] ELSE name

\* dict[name] = actual
Record(mapping, name, actual) ==
  [k \in (DOMAIN mapping) \cup {name} |->
     IF k = name THEN actual ELSE mapping[k]]

Free(t) == task[t].pc \in {"idle", "done"}

\* the task after its operation returned or raised: the arguments
\* and the outcome are kept, the locals are gone
Return(t, kind, value) ==
  [IdleTask EXCEPT !.op = task[t].op, !.pc = "done",
     !.node_type = task[t].node_type, !.name = task[t].name,
     !.description = task[t].description,
     !.source_name = task[t].source_name,
     !.target_name = task[t].target_name,
     !.relationship_type = task[t].relationship_type,
     !.properties = task[t].properties,
     !.actual_source_name = task[t].actual_source_name,
     !.actual_target_name = task[t].actual_target_name,
     !.idx = task[t].idx, !.found_id = task[t].found_id,
     !.raced = task[t].raced, !.upserted = task[t].upserted,
     !.query = task[t].query, !.query_text = task[t].query_text,
     !.top_k = task[t].top_k, !.depth = task[t].depth,
     !.attempts = task[t].attempts,
     !.result = <<kind, value>>]

\* history fields of a task: raced, upserted (both endpoint names of a
\* create_edge call were in the Name Mapping Table when it was called),
\* verdicts, parse_errors (the completions of this upsert that did not
\* parse), found_id and the id of a candidate row.
\* raced: a node write of task t lands between the existence check and the
\* relationship write of another task
Interleave(tk, t) ==
  [u \in Tasks |->
     IF u # t /\ tk[u].pc = "write_wait" THEN [tk[u] EXCEPT !.raced = TRUE]
     ELSE tk[u]]

\* tasks that may still add a node to the store
Creators ==
  {t \in Tasks : task[t].pc \in {"create_wait", "create", "merge_wait", "merge"}}

\* ------------------------------------------------------------------ the lock
WaitPcs == {"read_wait", "update_wait", "create_wait", "merge_wait",
            "check_wait", "diag_wait", "write_wait",
            "query_wait", "find_wait", "dfs_wait", "tx_query_wait"}

Held(pc) ==
  CASE pc = "read_wait" -> "read"
    [] pc = "update_wait" -> "update"
    [] pc = "create_wait" -> "create"
    [] pc = "merge_wait" -> "merge"
    [] pc = "check_wait" -> "check"
    [] pc = "diag_wait" -> "diag"
    [] pc = "write_wait" -> "write"
    [] pc = "query_wait" -> "query"
    [] pc = "find_wait" -> "find"
    [] pc = "dfs_wait" -> "dfs_nodes"
    [] pc = "tx_query_wait" -> "tx_query"
    [] OTHER -> pc

\* Acquire that does not wait for the holder to release
AcquireWhileHeld(t) ==
  /\ task[t].pc \in WaitPcs
  /\ lock' = t
  /\ task' = [task EXCEPT ![t].pc = Held(task[t].pc)]
  /\ UNCHANGED <<nodes, edges, node_name_mapping, calls_left>>
  /\ UNCHANGED turn

\* async with ctx.lock: (entry)
Acquire(t) ==
  /\ task[t].pc \in WaitPcs
  /\ lock = None
  /\ lock' = t
  /\ task' = [task EXCEPT ![t].pc = Held(task[t].pc)]
  /\ UNCHANGED <<nodes, edges, node_name_mapping, calls_left>>
  /\ UNCHANGED turn

\* Route without the EmTech branch
RouteNoReject(node_type) ==
  IF node_type \in SmartTypes THEN "smart_upsert" ELSE "merge_node"

\* -------------------------------------------------------------- create_node
\* which branch core_create_node takes
Route(node_type) ==
  IF node_type \in SmartTypes THEN "smart_upsert"
  ELSE IF node_type = "EmTech" THEN "reject"
  ELSE "merge_node"

CreateNode(t) ==
  /\ Free(t)
  /\ t = "t2" => ~Free("t1")
  /\ calls_left > 0
  /\ \E a \in NodeArgs :
       LET ty == a[1]
           n == a[2]
           d == a[3]
           base == [IdleTask EXCEPT !.op = "create_node", !.node_type = ty,
                                    !.name = n, !.description = d]
       IN CASE Route(ty) = "smart_upsert" ->
                 task' = [task EXCEPT ![t] = [base EXCEPT !.pc = "embed"]]
            [] Route(ty) = "reject" ->
                 task' = [task EXCEPT ![t] =
                            [base EXCEPT !.pc = "done",
                                         !.result = <<"text", EmTechSentinel>>]]
            [] OTHER ->
                 /\ Len(nodes) + Cardinality(Creators) < MaxNodes
                 /\ task' = [task EXCEPT ![t] = [base EXCEPT !.pc = "merge_wait"]]
  /\ calls_left' = calls_left - 1
  /\ UNCHANGED <<nodes, edges, node_name_mapping, lock>>
  /\ UNCHANGED turn

\* ------------------------------------------------------------- smart upsert
\* emb_response = await openai_embedding_client.embeddings.create(...)
EmbedNew(t) ==
  /\ task[t].pc = "embed"
  /\ task' = [task EXCEPT ![t].new_embedding = Embed(task[t].description),
                          ![t].pc = "read_wait"]
  /\ UNCHANGED <<nodes, edges, node_name_mapping, lock, calls_left>>
  /\ UNCHANGED turn

\* the nodes the vector index of a category holds
Indexed(ns, node_type) ==
  {i \in DOMAIN ns : ns[i].type = node_type /\ ns[i].embedding # NoEmb}

\* the orders in which the index may return its nodes, best score first
RECURSIVE RankingsOf(_, _, _)
RankingsOf(ns, S, vector) ==
  IF S = {} THEN {<<>>}
  ELSE LET best == {i \in S : \A j \in S :
                      Score(ns[i].embedding, vector) >= Score(ns[j].embedding, vector)}
       IN UNION {{<<i>> \o r : r \in RankingsOf(ns, S \ {i}, vector)} : i \in best}

Rankings(ns, node_type, vector) == RankingsOf(ns, Indexed(ns, node_type), vector)

\* one row of similar_query for node i
Row(ns, i, vector) ==
  [name |-> ns[i].name, description |-> ns[i].description,
   score |-> Score(ns[i].embedding, vector), id |-> i]

AboveThreshold(row) == row.score >= Threshold

\* similar_query without its LIMIT
SimilarNodesUnlimited(ns, ranking, vector) ==
  LET top == SubSeq(ranking, 1, Min(Len(ranking), IndexTopK))
      rows == [k \in 1..Len(top) |-> Row(ns, top[k], vector)]
  IN SelectSeq(rows, AboveThreshold)

\* similar_query applied to one ranking of the index
SimilarNodes(ns, ranking, vector) ==
  LET top == SubSeq(ranking, 1, Min(Len(ranking), IndexTopK))
      rows == [k \in 1..Len(top) |-> Row(ns, top[k], vector)]
      kept == SelectSeq(rows, AboveThreshold)
  IN SubSeq(kept, 1, Min(Len(kept), CandidateLimit))

\* where the upsert goes when the candidate loop is over
AfterLoop(found_same_name) ==
  IF Truthy(found_same_name) THEN "reembed" ELSE "create_wait"

CanLeaveLoop(found_same_name) ==
  AfterLoop(found_same_name) = "create_wait"
     => Len(nodes) + Cardinality(Creators) < MaxNodes

\* a candidate read that leaves its lock block only at the end of the upsert
ReadSimilarKeepsLock(t) ==
  /\ task[t].pc = "read"
  /\ lock = t
  /\ \E r \in Rankings(nodes, task[t].node_type, task[t].new_embedding) :
       LET sim == SimilarNodes(nodes, r, task[t].new_embedding)
       IN /\ sim # <<>>
          /\ task' = [task EXCEPT
               ![t].similar_nodes = sim,
               ![t].idx = 0,
               ![t].updated_name = task[t].name,
               ![t].updated_description = task[t].description,
               ![t].pc = "compare"]
  /\ UNCHANGED <<nodes, edges, node_name_mapping, lock, calls_left>>
  /\ UNCHANGED turn

\* async with ctx.lock: similar_nodes = await session.execute_read(read_similar)
ReadSimilar(t) ==
  /\ task[t].pc = "read"
  /\ lock = t
  /\ \E r \in Rankings(nodes, task[t].node_type, task[t].new_embedding) :
       LET sim == SimilarNodes(nodes, r, task[t].new_embedding)
       IN /\ sim = <<>> => CanLeaveLoop(None)
          /\ task' = [task EXCEPT
               ![t].similar_nodes = sim,
               ![t].idx = 0,
               ![t].updated_name = task[t].name,
               ![t].updated_description = task[t].description,
               ![t].pc = IF sim = <<>> THEN AfterLoop(None) ELSE "compare"]
  /\ lock' = None
  /\ UNCHANGED <<nodes, edges, node_name_mapping, calls_left>>
  /\ UNCHANGED turn

\* the comparator's answers: an unparsable completion, or a CompareResult
Verdicts ==
  {[parsed |-> FALSE, different |-> TRUE, name |-> None, description |-> None]}
  \cup [parsed : {TRUE}, different : BOOLEAN,
        name : {None, "B"}, description : {None, "d1"}]

\* if not result.different:  (inside the try)
IsMatch(v) == v.parsed /\ ~v.different

\* a loop that also ends at a completion that does not parse
LoopEndsOnParseError(v, idx, similar_nodes) ==
  ~v.parsed \/ IsMatch(v) \/ idx = Len(similar_nodes)

\* the loop ends after this candidate
LoopEnds(v, idx, similar_nodes) == IsMatch(v) \/ idx = Len(similar_nodes)

\* one iteration of "for sim in similar_nodes": one comparator call
Compare(t) ==
  /\ task[t].pc = "compare"
  /\ \E v \in Verdicts :
       LET k == task[t].idx + 1
           sim == task[t].similar_nodes[k]
           found == IF IsMatch(v) THEN sim.name ELSE task[t].found_same_name
           ends == LoopEnds(v, k, task[t].similar_nodes)
       IN /\ ends => CanLeaveLoop(found)
          /\ task' = [task EXCEPT
               ![t].idx = k,
               ![t].verdicts = Append(task[t].verdicts, IsMatch(v)),
               ![t].parse_errors = task[t].parse_errors + (IF v.parsed THEN 0 ELSE 1),
               ![t].found_same_name = found,
               ![t].found_id = IF IsMatch(v) THEN sim.id ELSE task[t].found_id,
               ![t].updated_name =
                  IF IsMatch(v) THEN Or(v.name, sim.name) ELSE task[t].updated_name,
               ![t].updated_description =
                  IF IsMatch(v) THEN Or(v.description, task[t].description)
                  ELSE task[t].updated_description,
               ![t].pc = IF ends THEN AfterLoop(found) ELSE "compare"]
  /\ UNCHANGED <<nodes, edges, node_name_mapping, lock, calls_left>>
  /\ UNCHANGED turn

\* an update that keeps the embedding of the incoming description
EmbedUpdatedStale(t) ==
  /\ task[t].pc = "reembed"
  /\ task' = [task EXCEPT ![t].pc = "update_wait"]
  /\ UNCHANGED <<nodes, edges, node_name_mapping, lock, calls_left>>
  /\ UNCHANGED turn

\* updated_emb_response = await openai_embedding_client.embeddings.create(...)
EmbedUpdated(t) ==
  /\ task[t].pc = "reembed"
  /\ task' = [task EXCEPT ![t].new_embedding = Embed(task[t].updated_description),
                          ![t].pc = "update_wait"]
  /\ UNCHANGED <<nodes, edges, node_name_mapping, lock, calls_left>>
  /\ UNCHANGED turn

\* MATCH (n:`{node_type}` {name: $node_name})
Matched(ns, node_type, node_name) ==
  {i \in DOMAIN ns : ns[i].type = node_type /\ ns[i].name = node_name}

\* SET n.name = $name, n.description = $description, n.embedding = $embedding
UpdateNodes(ns, hit, name, description, embedding) ==
  [i \in DOMAIN ns |->
     IF i \in hit
     THEN [ns[i] EXCEPT !.name = name, !.description = description,
                        !.embedding = embedding]
     ELSE ns[i]]

\* async with ctx.lock: actual_name = await session.execute_write(write_update)
WriteUpdate(t) ==
  /\ task[t].pc = "update"
  /\ lock = t
  /\ LET hit == Matched(nodes, task[t].node_type, task[t].found_same_name)
     IN IF hit = {}
        THEN \* records empty: RuntimeError, re-raised by the outer handler
             /\ task' = [task EXCEPT ![t] =
                  Return(t, "error", "Failed to update node")]
             /\ UNCHANGED <<nodes, node_name_mapping>>
        ELSE /\ nodes' = UpdateNodes(nodes, hit, task[t].updated_name,
                                     task[t].updated_description,
                                     task[t].new_embedding)
             /\ node_name_mapping' =
                  Record(node_name_mapping, task[t].name, task[t].updated_name)
             /\ task' = Interleave([task EXCEPT ![t] =
                  Return(t, "name", task[t].updated_name)], t)
  /\ lock' = None
  /\ UNCHANGED <<edges, calls_left>>
  /\ UNCHANGED turn

\* CreateNodes written as a MERGE on (label, name)
CreateNodesAsMerge(ns, node_type, name, description, embedding) ==
  IF \E i \in DOMAIN ns : ns[i].type = node_type /\ ns[i].name = name
  THEN [i \in DOMAIN ns |->
          IF ns[i].type = node_type /\ ns[i].name = name
          THEN [ns[i] EXCEPT !.description = description, !.embedding = embedding]
          ELSE ns[i]]
  ELSE Append(ns, [type |-> node_type, name |-> name,
                   description |-> description, embedding |-> embedding])

\* CREATE (n:`{node_type}` {name: $name, description: $description, embedding: $embedding})
CreateNodes(ns, node_type, name, description, embedding) ==
  Append(ns, [type |-> node_type, name |-> name,
              description |-> description, embedding |-> embedding])

\* async with ctx.lock: actual_name = await session.execute_write(write_create)
WriteCreate(t) ==
  /\ task[t].pc = "create"
  /\ lock = t
  /\ nodes' = CreateNodes(nodes, task[t].node_type, task[t].name,
                          task[t].description, task[t].new_embedding)
  /\ node_name_mapping' = Record(node_name_mapping, task[t].name, task[t].name)
  /\ task' = Interleave([task EXCEPT ![t] = Return(t, "name", task[t].name)], t)
  /\ lock' = None
  /\ UNCHANGED <<edges, calls_left>>
  /\ UNCHANGED turn

\* MergeNodes written as a CREATE
MergeNodesAsCreate(ns, node_type, name, description) ==
  Append(ns, [type |-> node_type, name |-> name,
              description |-> description, embedding |-> NoEmb])

\* --------------------------------------------------------------- merge_node
\* MERGE (n:`{node_type}` {name: $name}) SET n.description = $description
MergeNodes(ns, node_type, name, description) ==
  LET hit == Matched(ns, node_type, name)
  IN IF hit = {}
     THEN Append(ns, [type |-> node_type, name |-> name,
                      description |-> description, embedding |-> NoEmb])
     ELSE [i \in DOMAIN ns |->
             IF i \in hit THEN [ns[i] EXCEPT !.description = description]
             ELSE ns[i]]

\* a simple upsert that leaves an entry the table already has for the name
WriteMergeKeepsEntry(t) ==
  /\ task[t].pc = "merge"
  /\ lock = t
  /\ nodes' = MergeNodes(nodes, task[t].node_type, task[t].name,
                         task[t].description)
  /\ node_name_mapping' =
       IF task[t].name \in DOMAIN node_name_mapping THEN node_name_mapping
       ELSE Record(node_name_mapping, task[t].name, task[t].name)
  /\ task' = Interleave([task EXCEPT ![t] = Return(t, "name", task[t].name)], t)
  /\ lock' = None
  /\ UNCHANGED <<edges, calls_left>>
  /\ UNCHANGED turn

\* async with ctx.lock: node_name = await session.execute_write(write_work)
WriteMerge(t) ==
  /\ task[t].pc = "merge"
  /\ lock = t
  /\ nodes' = MergeNodes(nodes, task[t].node_type, task[t].name,
                         task[t].description)
  /\ node_name_mapping' = Record(node_name_mapping, task[t].name, task[t].name)
  /\ task' = Interleave([task EXCEPT ![t] = Return(t, "name", task[t].name)], t)
  /\ lock' = None
  /\ UNCHANGED <<edges, calls_left>>
  /\ UNCHANGED turn

\* -------------------------------------------------------------- create_edge
\* MATCH (n) WHERE n.name = $name
ByName(ns, name) == {i \in DOMAIN ns : ns[i].name = name}

\* MATCH (source) WHERE source.name = $source_name
\* MATCH (target) WHERE target.name = $target_name
EndpointRows(ns, source_name, target_name) ==
  ByName(ns, source_name) \X ByName(ns, target_name)

\* the start of core_create_edge, up to its first await
CreateEdge(t) ==
  /\ Free(t)
  /\ t = "t2" => ~Free("t1")
  /\ calls_left > 0
  /\ \E s \in Names, g \in Names, ty \in RelTypes, p \in PropMaps :
       task' = [task EXCEPT ![t] =
         [IdleTask EXCEPT !.op = "create_edge", !.pc = "check_wait",
            !.source_name = s, !.target_name = g,
            !.relationship_type = ty, !.properties = p,
            !.actual_source_name = Resolve(node_name_mapping, s),
            !.actual_target_name = Resolve(node_name_mapping, g),
            !.upserted = {s, g} \subseteq DOMAIN node_name_mapping]]
  /\ calls_left' = calls_left - 1
  /\ UNCHANGED <<nodes, edges, node_name_mapping, lock>>
  /\ UNCHANGED turn

\* async with ctx.lock: node_check = await session.execute_read(check_nodes)
CheckNodes(t) ==
  /\ task[t].pc = "check"
  /\ lock = t
  /\ LET node_check == EndpointRows(nodes, task[t].actual_source_name,
                                    task[t].actual_target_name)
     IN task' = [task EXCEPT ![t].pc =
                   IF node_check = {} THEN "diag_wait" ELSE "write_wait"]
  /\ lock' = None
  /\ UNCHANGED <<nodes, edges, node_name_mapping, calls_left>>
  /\ UNCHANGED turn

\* MissingNodes without the target check
MissingNodesSourceOnly(ns, tk) ==
  {[side |-> "source", actual |-> tk.actual_source_name,
    original |-> tk.source_name] : x \in
       IF \A i \in DOMAIN ns : ns[i].name # tk.actual_source_name
       THEN {1} ELSE {}}

\* missing_nodes, from source_exists and target_exists
MissingNodes(ns, tk) ==
  {[side |-> "source", actual |-> tk.actual_source_name,
    original |-> tk.source_name] : x \in
       IF ByName(ns, tk.actual_source_name) = {} THEN {1} ELSE {}}
  \cup
  {[side |-> "target", actual |-> tk.actual_target_name,
    original |-> tk.target_name] : x \in
       IF ByName(ns, tk.actual_target_name) = {} THEN {1} ELSE {}}

\* async with ctx.lock: source_exists, target_exists; raise RuntimeError
Diagnose(t) ==
  /\ task[t].pc = "diag"
  /\ lock = t
  /\ task' = [task EXCEPT ![t] = Return(t, "missing", MissingNodes(nodes, task[t]))]
  /\ lock' = None
  /\ UNCHANGED <<nodes, edges, node_name_mapping, calls_left>>
  /\ UNCHANGED turn

\* an existing relationship the MERGE pattern matches
RelMatches(es, s, g, ty, props) ==
  {e \in BagToSet(es) : /\ e.source = s /\ e.target = g /\ e.type = ty
                        /\ props \subseteq e.properties}

\* MERGE (source)-[r:{relationship_type} {prop_str}]->(target), for every row
MergeRels(es, rows, ty, props) ==
  es (+) SetToBag({[source |-> r[1], target |-> r[2], type |-> ty,
                    properties |-> props] :
                     r \in {q \in rows : RelMatches(es, q[1], q[2], ty, props) = {}}})

\* NoRecord without the check of the returned record
NoRecordUnchecked(rows) == FALSE

\* record = record_list[0] if record_list else None; if not record: raise
NoRecord(rows) == rows = {}

\* a relationship write whose error path leaves the lock held
WriteEdgeKeepsLock(t) ==
  /\ task[t].pc = "write"
  /\ lock = t
  /\ LET rows == EndpointRows(nodes, task[t].actual_source_name,
                              task[t].actual_target_name)
     IN IF NoRecord(rows)
        THEN /\ task' = [task EXCEPT ![t] =
                  Return(t, "error", "Failed to create edge")]
             /\ UNCHANGED <<edges, lock>>
        ELSE /\ edges' = MergeRels(edges, rows, task[t].relationship_type,
                                   task[t].properties)
             /\ BagCardinality(edges') <= MaxEdges
             /\ task' = [task EXCEPT ![t] = Return(t, "edge", "r")]
             /\ lock' = None
  /\ UNCHANGED <<nodes, node_name_mapping, calls_left>>
  /\ UNCHANGED turn

\* async with ctx.lock: edge = await session.execute_write(write_work)
WriteEdge(t) ==
  /\ task[t].pc = "write"
  /\ lock = t
  /\ LET rows == EndpointRows(nodes, task[t].actual_source_name,
                              task[t].actual_target_name)
     IN IF NoRecord(rows)
        THEN \* RuntimeError, wrapped by the handler
             /\ task' = [task EXCEPT ![t] =
                  Return(t, "error", "Failed to create edge")]
             /\ UNCHANGED edges
        ELSE /\ edges' = MergeRels(edges, rows, task[t].relationship_type,
                                   task[t].properties)
             /\ BagCardinality(edges') <= MaxEdges
             /\ task' = [task EXCEPT ![t] = Return(t, "edge", "r")]
  /\ lock' = None
  /\ UNCHANGED <<nodes, node_name_mapping, calls_left>>
  /\ UNCHANGED turn

\* ---------------------------------------------------------- read operations
\* the values of a result: strings, vectors (lists of floats), maps, lists
Str(x) == [kind |-> "str", str |-> x]

Vector(v) == [kind |-> "vector", vec |-> v]

Dict(f) == [kind |-> "dict", items |-> f]

List(q) == [kind |-> "list", items |-> q]

\* the properties of a stored node, as result.data() gives them
Properties(n) ==
  Dict([k \in (IF n.embedding = NoEmb THEN {"name", "description"}
                ELSE {"name", "description", "embedding"}) |->
          CASE k = "name" -> Str(n.name)
            [] k = "description" -> Str(n.description)
            [] OTHER -> Vector(n.embedding)])

\* filter_embedding: drops the key 'embedding' from every map, at every depth
RECURSIVE filter_embedding(_)
filter_embedding(obj) ==
  CASE obj.kind = "dict" ->
         Dict([k \in (DOMAIN obj.items) \ {"embedding"} |-> filter_embedding(obj.items[k])])
    [] obj.kind = "list" ->
         List([i \in DOMAIN obj.items |-> filter_embedding(obj.items[i])])
    [] OTHER -> obj

\* records = await result.data() for the queries the grammar accepts
QueryData(ns, query) ==
  IF query = "MATCH (n) RETURN collect(n) AS ns"
    THEN <<Dict("ns" :> List([i \in DOMAIN ns |-> Properties(ns[i])]))>>
    ELSE [i \in DOMAIN ns |->
            Dict("emb" :> (IF ns[i].embedding = NoEmb THEN Str(None)
                           ELSE Vector(ns[i].embedding)))]

\* validate_cypher_query: does the grammar accept the query
validate_cypher_query(query) ==
  query \in {"MATCH (n) RETURN collect(n) AS ns", "MATCH (n) RETURN n.embedding AS emb"}

\* except (ClientError, CypherSyntaxError, ServiceUnavailable) as e
Caught(e) == e \in {"ClientError", "CypherSyntaxError", "ServiceUnavailable"}

\* core_execute_cypher_query up to its first await
ExecuteCypherQuery(t) ==
  /\ Free(t)
  /\ t = "t2" => ~Free("t1")
  /\ calls_left > 0
  /\ \E q \in Queries :
       LET base == [IdleTask EXCEPT !.op = "execute_cypher_query", !.query = q]
       IN task' = [task EXCEPT ![t] =
            IF validate_cypher_query(q)
            THEN [base EXCEPT !.pc = "query_wait"]
            ELSE [base EXCEPT !.pc = "done",
                    !.result = <<"error", <<"Invalid Cypher query", "validation">>>>]]
  /\ calls_left' = calls_left - 1
  /\ UNCHANGED <<nodes, edges, node_name_mapping, lock>>
  /\ UNCHANGED turn

\* async with ctx.lock: return await session.execute_read(read_work)
RunQuery(t) ==
  /\ task[t].pc = "query"
  /\ lock = t
  /\ \E out \in {"records"} \cup StoreErrors :
       LET tk == [task EXCEPT ![t].attempts = task[t].attempts + 1]
           data == QueryData(nodes, task[t].query)
           records == [i \in DOMAIN data |-> filter_embedding(data[i])]
       IN task' = [tk EXCEPT ![t] =
            [Return(t, "none", None) EXCEPT
               !.attempts = tk[t].attempts,
               !.result =
                  IF out = "records" THEN <<"records", records>>
                  ELSE IF Caught(out)
                       THEN <<"error", <<"Error executing Cypher query", out>>>>
                       ELSE <<"raised", out>>]]
  /\ lock' = None
  /\ UNCHANGED <<nodes, edges, node_name_mapping, calls_left>>
  /\ UNCHANGED turn

\* core_find_node up to its first await
FindNode(t) ==
  /\ Free(t)
  /\ t = "t2" => ~Free("t1")
  /\ calls_left > 0
  /\ \E a \in FindArgs :
       LET base == [IdleTask EXCEPT !.op = "find_node", !.query_text = a[1],
                                    !.node_type = a[2], !.top_k = a[3]]
       IN task' = [task EXCEPT ![t] =
            IF a[4]
            THEN [base EXCEPT !.pc = "find_embed"]
            ELSE [base EXCEPT !.pc = "done",
                    !.result = <<"ValueError",
                       "openai_embedding_client is required for find_node">>]]
  /\ calls_left' = calls_left - 1
  /\ UNCHANGED <<nodes, edges, node_name_mapping, lock>>
  /\ UNCHANGED turn

\* emb_response = await openai_embedding_client.embeddings.create(...)
EmbedQuery(t) ==
  /\ task[t].pc = "find_embed"
  /\ task' = [task EXCEPT ![t].new_embedding = Embed(task[t].query_text),
                          ![t].pc = "find_wait"]
  /\ UNCHANGED <<nodes, edges, node_name_mapping, lock, calls_left>>
  /\ UNCHANGED turn

\* queryNodes($index_name, $top_k, $embedding) ... ORDER BY score DESC
FoundRows(ns, ranking, vector, top_k) ==
  [k \in 1..Min(Len(ranking), top_k) |->
     [node |-> filter_embedding(
                 Dict([x \in {"name", "description"} |->
                         IF x = "name" THEN Str(ns[ranking[k]].name)
                         ELSE Str(ns[ranking[k]].description)])),
      score |-> Score(ns[ranking[k]].embedding, vector)]]

\* async with ctx.lock: results = await session.execute_read(read_work)
FindRead(t) ==
  /\ task[t].pc = "find"
  /\ lock = t
  /\ \/ \E r \in Rankings(nodes, task[t].node_type, task[t].new_embedding) :
          task' = [task EXCEPT ![t] =
            [Return(t, "rows", FoundRows(nodes, r, task[t].new_embedding,
                                         task[t].top_k))
               EXCEPT !.attempts = task[t].attempts + 1]]
     \/ \E e \in StoreErrors :
          task' = [task EXCEPT ![t] =
            [Return(t, "error", <<"Failed to find nodes", e>>)
               EXCEPT !.attempts = task[t].attempts + 1]]
  /\ lock' = None
  /\ UNCHANGED <<nodes, edges, node_name_mapping, calls_left>>
  /\ UNCHANGED turn

\* Step without the label filter
StepUnfiltered(ns, es, S) ==
  {j \in DOMAIN ns :
     \E e \in BagToSet(es) :
       \/ e.source \in S /\ e.target = j
       \/ e.target \in S /\ e.source = j}

\* the nodes one hop from a node of S, in either direction, that the
\* label filter '-EmTech' lets through
Step(ns, es, S) ==
  {j \in DOMAIN ns :
     /\ ns[j].type # "EmTech"
     /\ \E e \in BagToSet(es) :
          \/ e.source \in S /\ e.target = j
          \/ e.target \in S /\ e.source = j}

\* apoc.path.subgraphNodes(startNode, {maxLevel: $depth, labelFilter: '-EmTech'})
RECURSIVE SubgraphNodes(_, _, _, _)
SubgraphNodes(ns, es, S, depth) ==
  IF depth <= 0 THEN S
  ELSE SubgraphNodes(ns, es, S \cup Step(ns, es, S), depth - 1)

\* the relationships on the paths of apoc.path.expandConfig, as a set
PathRels(ns, es, S, depth) ==
  IF depth <= 0 THEN {}
  ELSE LET inner == SubgraphNodes(ns, es, S, depth - 1)
       IN {e \in BagToSet(es) :
             /\ e.source \in inner \/ e.target \in inner
             /\ e.source \in inner \cup Step(ns, es, inner)
             /\ e.target \in inner \cup Step(ns, es, inner)}

\* core_dfs without its argument checks
DfsUnvalidated(t) ==
  /\ Free(t)
  /\ t = "t2" => ~Free("t1")
  /\ calls_left > 0
  /\ \E a \in DfsArgs :
       task' = [task EXCEPT ![t] =
                  [IdleTask EXCEPT !.op = "dfs", !.name = a[1], !.node_type = a[2],
                                   !.depth = a[3], !.pc = "dfs_wait"]]
  /\ calls_left' = calls_left - 1
  /\ UNCHANGED <<nodes, edges, node_name_mapping, lock>>
  /\ UNCHANGED turn

\* core_dfs up to its first await
Dfs(t) ==
  /\ Free(t)
  /\ t = "t2" => ~Free("t1")
  /\ calls_left > 0
  /\ \E a \in DfsArgs :
       LET base == [IdleTask EXCEPT !.op = "dfs", !.name = a[1],
                                    !.node_type = a[2], !.depth = a[3]]
       IN task' = [task EXCEPT ![t] =
            IF ~Truthy(a[1])
            THEN [base EXCEPT !.pc = "done",
                    !.result = <<"ValueError", "node_name must be a non-empty string">>]
            ELSE IF a[3] < 0
            THEN [base EXCEPT !.pc = "done",
                    !.result = <<"ValueError", "depth must be a non-negative integer">>]
            ELSE [base EXCEPT !.pc = "dfs_wait"]]
  /\ calls_left' = calls_left - 1
  /\ UNCHANGED <<nodes, edges, node_name_mapping, lock>>
  /\ UNCHANGED turn

\* async with ctx.lock: nodes = await session.execute_read(read_nodes)
DfsNodes(t) ==
  /\ task[t].pc = "dfs_nodes"
  /\ lock = t
  /\ \/ /\ task' = [task EXCEPT
             ![t].found_nodes =
                SubgraphNodes(nodes, edges,
                              Matched(nodes, task[t].node_type, task[t].name),
                              task[t].depth),
             ![t].attempts = task[t].attempts + 1,
             ![t].pc = "dfs_edges"]
        /\ lock' = lock
     \/ /\ \E e \in {"ServiceUnavailable"} :
             task' = [task EXCEPT ![t] =
               [Return(t, "error", <<"Failed dfs()", e>>)
                  EXCEPT !.attempts = task[t].attempts + 1]]
        /\ lock' = None
  /\ UNCHANGED <<nodes, edges, node_name_mapping, calls_left>>
  /\ UNCHANGED turn

\* edges = await session.execute_read(read_edges); return [{nodes, edges}]
DfsEdges(t) ==
  /\ task[t].pc = "dfs_edges"
  /\ lock = t
  /\ \/ LET starts == Matched(nodes, task[t].node_type, task[t].name)
            rels == PathRels(nodes, edges, starts, task[t].depth)
        IN task' = [task EXCEPT ![t] =
             [Return(t, "dfs",
                [nodes |-> {[name |-> nodes[i].name,
                             description |-> nodes[i].description] :
                               i \in task[t].found_nodes},
                 edges |-> {[source_node_name |-> nodes[e.source].name,
                             relationship |-> e.type,
                             end_node_name |-> nodes[e.target].name] : e \in rels}])
                EXCEPT !.attempts = task[t].attempts + 1]]
     \/ \E e \in {"ServiceUnavailable"} :
          task' = [task EXCEPT ![t] =
            [Return(t, "error", <<"Failed dfs()", e>>)
               EXCEPT !.attempts = task[t].attempts + 1]]
  /\ lock' = None
  /\ UNCHANGED <<nodes, edges, node_name_mapping, calls_left>>
  /\ UNCHANGED turn

Next ==
  \E t \in Tasks :
    \/ CreateEdge(t)
    \/ CheckNodes(t)
    \/ Diagnose(t)
    \/ WriteEdge(t)
    \/ Acquire(t)
    \/ CreateNode(t)
    \/ EmbedNew(t)
    \/ ReadSimilar(t)
    \/ Compare(t)
    \/ EmbedUpdated(t)
    \/ WriteUpdate(t)
    \/ WriteCreate(t)
    \/ WriteMerge(t)
    \/ ExecuteCypherQuery(t)
    \/ RunQuery(t)
    \/ FindNode(t)
    \/ EmbedQuery(t)
    \/ FindRead(t)
    \/ Dfs(t)
    \/ DfsNodes(t)
    \/ DfsEdges(t)

Spec == Init /\ [][Next]_vars

SpecDeep == InitDeep /\ [][Next]_vars

TypeOK ==
  /\ Len(nodes) <= MaxNodes
  /\ BagCardinality(edges) <= MaxEdges
  /\ calls_left \in 0..MaxDeepCalls
  /\ lock \in Tasks \cup {None}
  /\ \A t \in Tasks :
       lock = t <=> task[t].pc \in {Held(p) : p \in WaitPcs} \cup {"dfs_edges"}

\* ------------------------------------------------------------------ claims
\* the position of the first candidate the comparator judged 'not different'
FirstMatch(v) == CHOOSE k \in 1..Len(v) : v[k] /\ \A j \in 1..(k - 1) : ~v[j]

\* C1: the merge write of a dedup upsert goes to the first candidate (in
\* descending score order) that the comparator judged 'not different', and
\* to no other node; the comparator was called as many times as that
\* candidate's position.
C1_FirstMatchMerge ==
  [][\A t \in Tasks :
       (task[t].pc = "update" /\ task'[t].pc = "done") =>
          LET k == FirstMatch(task[t].verdicts)
              cand == task[t].similar_nodes[k]
          IN /\ task[t].idx = k
             /\ \A j \in 1..(k - 1) :
                  task[t].similar_nodes[j].score >= task[t].similar_nodes[j + 1].score
             /\ nodes'[cand.id].name = task[t].updated_name
             /\ nodes'[cand.id].description = task[t].updated_description
             /\ \A i \in DOMAIN nodes : i # cand.id => nodes'[i] = nodes[i]]_vars

\* C2: a dedup upsert whose candidates were all judged 'different' (or that
\* had no candidate at or above the threshold) appends exactly one node with
\* the caller's name and description, leaves every existing node as it was,
\* records name -> name and returns the name.
C2_NoMatchCreatesOne ==
  /\ [](\A t \in Tasks :
          /\ task[t].pc \in {"create_wait", "create"} =>
               /\ task[t].idx = Len(task[t].similar_nodes)
               /\ \A k \in 1..Len(task[t].verdicts) : ~task[t].verdicts[k]
          /\ task[t].pc \in {"compare", "reembed", "update_wait", "update",
                             "create_wait", "create"} =>
               \A k \in 1..Len(task[t].similar_nodes) :
                  task[t].similar_nodes[k].score >= Threshold)
  /\ [][\A t \in Tasks :
          (task[t].pc = "create" /\ task'[t].pc = "done") =>
             /\ Len(nodes') = Len(nodes) + 1
             /\ \A i \in DOMAIN nodes : nodes'[i] = nodes[i]
             /\ nodes'[Len(nodes')] =
                  [type |-> task[t].node_type, name |-> task[t].name,
                   description |-> task[t].description,
                   embedding |-> Embed(task[t].description)]
             /\ DOMAIN node_name_mapping' = DOMAIN node_name_mapping \cup {task[t].name}
             /\ node_name_mapping'[task[t].name] = task[t].name
             /\ \A k \in DOMAIN node_name_mapping :
                  k # task[t].name => node_name_mapping'[k] = node_name_mapping[k]
             /\ task'[t].result = <<"name", task[t].name>>]_vars

\* a dedup upsert created a node after the comparator had judged every
\* candidate different, next to the candidate it was compared with
C2_Witness ==
  \E t \in Tasks :
    /\ task[t].pc = "done" /\ task[t].op = "create_node"
    /\ task[t].node_type \in SmartTypes
    /\ task[t].idx >= 1 /\ task[t].found_id = 0
    /\ task[t].result = <<"name", task[t].name>>
    /\ Len(nodes) >= 2

\* C3: a dedup upsert that matched an existing node creates no node, and the
\* name it returns is the name the matched node is stored under afterwards.
C3_MatchReturnsStoredName ==
  [][\A t \in Tasks :
       (task[t].pc = "update" /\ task'[t].pc = "done"
          /\ task'[t].result[1] = "name") =>
             /\ Len(nodes') = Len(nodes)
             /\ nodes'[task[t].found_id].name = task'[t].result[2]]_vars

\* C4: every entry of the Name Mapping Table names a node that is stored
\* under the entry's canonical name.
C4_MappingNamesStoredNode ==
  \A k \in DOMAIN node_name_mapping :
     \E i \in DOMAIN nodes : nodes[i].name = node_name_mapping[k]

\* C5: create_edge resolves both endpoint names through the Name Mapping
\* Table (the literal name when unmapped), and a link whose caller passes
\* names that were upserted in this Context before the call (such as the
\* pre-merge name of a dedup-merged node) passes the existence check and
\* attaches to the nodes carrying the resolved names.
C5_LinkByUpsertedName ==
  [][\A t \in Tasks :
       /\ (task[t].pc # "check_wait" /\ task'[t].pc = "check_wait") =>
            /\ task'[t].actual_source_name =
                 IF task'[t].source_name \in DOMAIN node_name_mapping
                 THEN node_name_mapping[task'[t].source_name]
                 ELSE task'[t].source_name
            /\ task'[t].actual_target_name =
                 IF task'[t].target_name \in DOMAIN node_name_mapping
                 THEN node_name_mapping[task'[t].target_name]
                 ELSE task'[t].target_name
       /\ (task[t].pc = "check" /\ task'[t].pc # "check" /\ task[t].upserted)
            => task'[t].pc = "write_wait"
       /\ (task[t].pc = "write" /\ task'[t].pc = "done" /\ task[t].upserted)
            => /\ task'[t].result[1] = "edge"
               /\ \E e \in BagToSet(edges') :
                    /\ nodes[e.source].name = task[t].actual_source_name
                    /\ nodes[e.target].name = task[t].actual_target_name]_vars

\* the sides of a link for which no node carries the resolved name
Absent(ns, tk) ==
  {m \in {[side |-> "source", actual |-> tk.actual_source_name,
           original |-> tk.source_name],
          [side |-> "target", actual |-> tk.actual_target_name,
           original |-> tk.target_name]} :
     \A i \in DOMAIN ns : ns[i].name # m.actual}

C7_EdgeSuccessHasEndpoints ==
  /\ [](\A e \in BagToSet(edges) :
          e.source \in DOMAIN nodes /\ e.target \in DOMAIN nodes)
  /\ [][\A t \in Tasks :
          (task[t].pc = "write" /\ task'[t].pc = "done") =>
             IF task'[t].result[1] = "edge"
             THEN \E e \in BagToSet(edges') :
                    /\ e.type = task[t].relationship_type
                    /\ task[t].properties \subseteq e.properties
                    /\ nodes[e.source].name = task[t].actual_source_name
                    /\ nodes[e.target].name = task[t].actual_target_name
                    /\ nodes' = nodes
             ELSE edges' = edges]_vars

\* a create_edge call returned an edge although a node write of another
\* task ran between its existence check and its relationship write
C7_Witness ==
  \E t \in Tasks :
    /\ task[t].pc = "done" /\ task[t].op = "create_edge"
    /\ task[t].result[1] = "edge" /\ task[t].raced
    /\ BagCardinality(edges) >= 1

\* the number of relationships of type ty from node s to node g
RelCount(es, s, g, ty) ==
  BagCardinality([e \in {x \in BagToSet(es) :
                           x.source = s /\ x.target = g /\ x.type = ty}
                    |-> CopiesIn(e, es)])

\* C8: there is at most one relationship of a given type from one node to
\* another, however often create_edge was called for them.
C8_OneRelPerTypeAndEndpoints ==
  \A s, g \in DOMAIN nodes : \A ty \in RelTypes : RelCount(edges, s, g, ty) <= 1

\* C9: a Simple Upsert leaves exactly one node with the given (category,
\* name), carrying the description of the latest call, and returns the
\* given name; it adds a node only if none had that category and name.
C9_SimpleUpsertIdempotent ==
  /\ [](\A i, j \in DOMAIN nodes :
          (nodes[i].type \notin SmartTypes /\ nodes[i].type = nodes[j].type
             /\ nodes[i].name = nodes[j].name) => i = j)
  /\ [][\A t \in Tasks :
          (task[t].pc = "merge" /\ task'[t].pc = "done") =>
             LET same(ns) == {i \in DOMAIN ns : ns[i].type = task[t].node_type
                                                /\ ns[i].name = task[t].name}
             IN /\ Cardinality(same(nodes')) = 1
                /\ \A i \in same(nodes') :
                     nodes'[i].description = task[t].description
                /\ Len(nodes') = Len(nodes) + (IF same(nodes) = {} THEN 1 ELSE 0)
                /\ \A i \in DOMAIN nodes : i \notin same(nodes) => nodes'[i] = nodes[i]
                /\ task'[t].result = <<"name", task[t].name>>]_vars

\* a Simple Upsert is rewriting the description of the node an earlier
\* Simple Upsert of the same category and name stored
C9_Witness ==
  \E t \in Tasks :
    /\ task[t].pc = "merge"
    /\ \E i \in DOMAIN nodes :
         /\ nodes[i].type = task[t].node_type /\ nodes[i].name = task[t].name
         /\ nodes[i].description # task[t].description
    /\ task[t].name \in DOMAIN node_name_mapping

\* C10: create_node with the category EmTech returns the sentinel in the
\* step of the call itself, with the store, the Name Mapping Table and the
\* lock untouched; such a call never waits for or holds the lock.
C10_EmTechRejected ==
  /\ [](\A t \in Tasks :
          task[t].node_type = "EmTech" =>
             /\ task[t].pc = "done" /\ lock # t
             /\ task[t].result = <<"text", EmTechSentinel>>)
  /\ [][\A t \in Tasks :
          (task'[t] # task[t] /\ task'[t].node_type = "EmTech") =>
             /\ task[t].pc \in {"idle", "done"}
             /\ nodes' = nodes /\ edges' = edges
             /\ node_name_mapping' = node_name_mapping
             /\ lock' = lock]_vars

\* an EmTech creation was rejected on a store that holds nodes
C10_Witness ==
  \E t \in Tasks :
    /\ task[t].pc = "done" /\ task[t].node_type = "EmTech"
    /\ task[t].result = <<"text", EmTechSentinel>>
    /\ Len(nodes) >= 1 /\ DOMAIN node_name_mapping # {}
\* the positions at which a task has a store read or write in flight
InStore == {Held(p) : p \in WaitPcs} \cup {"dfs_edges"}

\* C11: every store access of execute_cypher_query, create_node,
\* create_edge, find_node and dfs is issued by the task that holds the
\* Context lock, at most one task holds the lock, and so no two store
\* accesses of one Context are in flight at the same time; the store
\* changes only in a step of the lock holder.
C11_StoreAccessUnderLock ==
  /\ [](\A t \in Tasks : task[t].pc \in InStore => lock = t)
  /\ [](\A t, u \in Tasks :
          (task[t].pc \in InStore /\ task[u].pc \in InStore) => t = u)
  /\ [][(nodes' # nodes \/ edges' # edges) =>
          \E t \in Tasks : /\ lock = t
                           /\ task[t].pc \in InStore
                           /\ task'[t].pc # task[t].pc]_vars

\* a read operation holds the lock for its second read while a write of
\* another task waits for it
C11_Witness ==
  \E t, u \in Tasks :
    /\ task[t].pc = "dfs_edges" /\ lock = t
    /\ task[u].pc \in {"update_wait", "create_wait", "merge_wait", "write_wait"}

\* a finished dedup upsert that wrote a new node
Created(tk) ==
  /\ tk.op = "create_node" /\ tk.pc = "done"
  /\ tk.node_type \in SmartTypes
  /\ tk.result[1] = "name" /\ tk.found_id = 0

\* C12: concurrently dispatched calls end as some sequential execution of
\* the same calls would.  Two dedup upserts of the same concept (the same
\* category, name and description), the only calls of their Context: run
\* one after the other, the second is shown the node of the first, so they
\* both create a node only if the comparator judged that node different;
\* dispatched concurrently they must not both create one without that
\* judgement either.
C12_ConcurrentAsSequential ==
  \A t, u \in Tasks :
    ( /\ t # u
      /\ calls_left = MaxCalls - 2
      /\ Created(task[t]) /\ Created(task[u])
      /\ task[t].node_type = task[u].node_type
      /\ task[t].name = task[u].name
      /\ task[t].description = task[u].description )
    => (task[t].idx >= 1 \/ task[u].idx >= 1)

\* C13: the merge write of a dedup upsert lands on the node it matched, as
\* that node is stored when the write runs: if another upsert renamed the
\* node between the candidate read and the write, the write still succeeds,
\* gives that node the merged description and embedding, and the upsert
\* returns the node's name.
C13_MergeWriteFollowsRename ==
  [][\A t \in Tasks :
       ( /\ task[t].pc = "update" /\ task'[t].pc = "done"
         /\ nodes[task[t].found_id].name # task[t].found_same_name ) =>
           /\ task'[t].result[1] = "name"
           /\ nodes'[task[t].found_id].description = task[t].updated_description
           /\ nodes'[task[t].found_id].embedding = task[t].new_embedding
           /\ task'[t].result[2] = nodes'[task[t].found_id].name]_vars

\* ---------------------------------------------------------------------
\* One turn: the host's loop around the tool calls of a conversation turn

\* the programs that run a turn
Hosts == {"app_gpt5", "app_gpt5_responses_api", "scraper", "chainlit_xai_util"}

\* the hosts that begin one explicit transaction and pass it to the tools
TxHosts == {"app_gpt5", "app_gpt5_responses_api"}

\* scraper.process gives up at this many failed tool calls
ScraperErrorLimit == 10

\* chainlit_xai_util.process_stream gives up at this many failed tool calls
StreamErrorLimit == 3

\* both loops run while counter < 100
LoopLimit == 100

\* the tools a response may call
ToolKinds == {"create_node", "create_edge", "execute_cypher_query"}

\* what one awaited tool call can come to
Outcomes(host, kind) ==
  CASE kind = "create_node" -> {"wrote", "other"}
    [] kind = "create_edge" ->
         IF host \in TxHosts THEN {"wrote", "returned"} ELSE {"wrote", "missing_endpoint"}
    [] OTHER -> {"returned", "invalid_query", "transient"}

NewTurn(h) ==
  [host |-> h,
   pc |-> IF h \in TxHosts THEN "begin" ELSE "sample",
   kind |-> None, stage |-> None, locked |-> FALSE, attempts |-> 0,
   tx |-> "none", tx_closed |-> FALSE, tx_calls |-> <<>>,
   session |-> IF h \in TxHosts THEN "open" ELSE "none",
   driver |-> "open",
   pending |-> 0, durable |-> 0, written |-> 0, commits |-> 0,
   error_count |-> 0, counter |-> 0, calls |-> 0, todo |-> 0,
   batch |-> 0, results |-> 0,
   last |-> <<None, None>>, exc |-> None, outcome |-> None, cancelled_in |-> None]

InitTurn ==
  /\ nodes = <<>>
  /\ edges = EmptyBag
  /\ node_name_mapping = <<>>
  /\ lock = None
  /\ task = [t \in Tasks |-> IdleTask]
  /\ calls_left = 0
  /\ turn \in {NewTurn(h) : h \in Hosts}

\* an exception leaves the loop of the turn
Raised(tn, cause) ==
  CASE tn.host \in TxHosts -> [tn EXCEPT !.pc = "except", !.exc = cause]
    [] tn.host = "scraper" -> [tn EXCEPT !.pc = "teardown", !.exc = cause, !.outcome = "failed"]
    [] OTHER -> [tn EXCEPT !.pc = "exited", !.exc = cause, !.outcome = "failed"]

\* a loop that gives up at the first failed tool call
ErrorBudgetFirst(host) == 1

\* the number of failed tool calls at which the loop of the host gives up
ErrorBudget(host) == IF host = "scraper" THEN ScraperErrorLimit ELSE StreamErrorLimit

\* an awaited tool function raised
ToolError(tn, cause) ==
  LET n == tn.error_count + 1
      counted == [tn EXCEPT !.error_count = n]
  IN  CASE tn.host \in TxHosts -> Raised(tn, cause)
        [] tn.host = "scraper" ->
             IF n >= ErrorBudget(tn.host)
               THEN Raised(counted, cause)
               ELSE [counted EXCEPT !.last = <<"error", cause>>, !.todo = tn.todo - 1,
                                    !.results = tn.results + 1, !.pc = "tools"]
        [] OTHER ->
             IF n >= ErrorBudget(tn.host)
               THEN [counted EXCEPT !.pc = "exited", !.exc = cause, !.outcome = "failed"]
               ELSE [counted EXCEPT !.last = <<"error", cause>>, !.todo = 0,
                                    !.results = tn.results + 1, !.pc = "sample"]

\* tx = await session.begin_transaction()
BeginTransaction ==
  /\ turn.host \in TxHosts
  /\ turn.pc = "begin"
  /\ \/ turn' = [turn EXCEPT !.tx = "open", !.pc = "sample",
                             !.tx_calls = Append(turn.tx_calls, "begin")]
     \/ turn' = [turn EXCEPT !.session = "closed", !.exc = "other", !.outcome = "failed", !.pc = "exited"]
  /\ UNCHANGED ctxVars

\* one response of the model: its tool calls, or none
Sample ==
  /\ turn.host \in Hosts
  /\ turn.pc = "sample"
  /\ LET counted == [turn EXCEPT !.counter = IF turn.host \in TxHosts THEN 0 ELSE turn.counter + 1]
     IN  IF turn.host \notin TxHosts /\ turn.counter >= LoopLimit
           THEN turn' = [turn EXCEPT !.outcome = "completed",
                                     !.pc = IF turn.host = "scraper" THEN "teardown" ELSE "exited"]
           ELSE \/ \E n \in 1..MaxBatch :
                     /\ turn.calls + n <= MaxToolCalls
                     /\ turn' = [counted EXCEPT !.todo = n, !.batch = n, !.results = 0,
                                                !.pc = "tools"]
                \/ turn' = [counted EXCEPT !.pc = "finish"]
                \/ turn' = Raised(counted, "other")
  /\ UNCHANGED ctxVars

\* the next tool call of the response is awaited
NextTool ==
  /\ turn.host \in Hosts
  /\ turn.pc = "tools"
  /\ turn.todo > 0
  /\ \E k \in ToolKinds :
       turn' = [turn EXCEPT !.kind = k, !.calls = turn.calls + 1, !.attempts = 0, !.pc = "op",
                            !.stage = IF k = "create_node" THEN "llm" ELSE "lock_wait"]
  /\ UNCHANGED ctxVars

\* all tool calls of the response are answered
ToolsDone ==
  /\ turn.host \in Hosts
  /\ turn.pc = "tools"
  /\ turn.todo = 0
  /\ turn' = [turn EXCEPT !.pc = "sample"]
  /\ UNCHANGED ctxVars

\* the tool function proceeds to its store access; the driver-based
\* execute_cypher_query validates the query before it asks for the lock
OpStep ==
  /\ turn.host \in Hosts
  /\ turn.pc = "op"
  /\ \/ /\ turn.stage = "llm"
        /\ turn' = [turn EXCEPT !.stage = "lock_wait"]
     \/ /\ turn.stage = "lock_wait"
        /\ turn' = [turn EXCEPT !.stage = "store", !.locked = TRUE]
     \/ /\ turn.stage = "lock_wait"
        /\ turn.host \notin TxHosts
        /\ turn.kind = "execute_cypher_query"
        /\ turn' = ToolError([turn EXCEPT !.stage = None], "invalid_query")
  /\ UNCHANGED ctxVars

\* the store access of the tool function ends and the lock is released
OpFinish ==
  /\ turn.host \in Hosts
  /\ turn.pc = "op"
  /\ turn.stage = "store"
  /\ \E out \in Outcomes(turn.host, turn.kind) :
       LET ran == [turn EXCEPT !.locked = FALSE, !.attempts = turn.attempts + 1, !.stage = None]
           answered == [ran EXCEPT !.last = <<"result", out>>, !.todo = turn.todo - 1,
                                   !.results = turn.results + 1, !.pc = "tools"]
       IN  CASE out = "wrote" /\ turn.host \in TxHosts ->
                  turn' = [answered EXCEPT !.pending = turn.pending + 1, !.written = turn.written + 1]
             [] out = "wrote" /\ turn.host \notin TxHosts ->
                  turn' = [answered EXCEPT !.durable = turn.durable + 1, !.written = turn.written + 1]
             [] out = "returned" -> turn' = answered
             [] OTHER -> turn' = ToolError(ran, out)
  /\ UNCHANGED ctxVars

\* the model answered without tool calls
Finish ==
  /\ turn.host \in Hosts
  /\ turn.pc = "finish"
  /\ CASE turn.host = "app_gpt5" -> turn' = [turn EXCEPT !.pc = "commit"]
       [] turn.host = "app_gpt5_responses_api" ->
            \/ turn' = [turn EXCEPT !.outcome = "completed", !.pc = "finally"]
            \/ turn' = Raised(turn, "other")
       [] turn.host = "scraper" -> turn' = [turn EXCEPT !.outcome = "completed", !.pc = "teardown"]
       [] OTHER -> turn' = [turn EXCEPT !.outcome = "completed", !.pc = "exited"]
  /\ UNCHANGED ctxVars

\* await tx.commit()
Commit ==
  /\ turn.host = "app_gpt5"
  /\ turn.pc = "commit"
  /\ LET called == [turn EXCEPT !.tx_calls = Append(turn.tx_calls, "commit")]
     IN \/ turn' = [called EXCEPT !.tx = "committed", !.durable = turn.durable + turn.pending,
                                  !.pending = 0, !.commits = turn.commits + 1, !.pc = "update"]
        \/ turn' = Raised(called, "other")
  /\ UNCHANGED ctxVars

\* await output_message.update() after the commit
Update ==
  /\ turn.host = "app_gpt5"
  /\ turn.pc = "update"
  /\ \/ turn' = [turn EXCEPT !.outcome = "completed", !.pc = "finally"]
     \/ turn' = Raised(turn, "other")
  /\ UNCHANGED ctxVars

\* the except clauses of on_message
Except ==
  /\ turn.host \in TxHosts
  /\ turn.pc = "except"
  /\ LET kept == [turn EXCEPT !.pc = "finally"]
         \* await tx.cancel() / await tx.rollback()
         called(m) == [kept EXCEPT !.tx_calls = Append(turn.tx_calls, m)]
         undone(m) == [called(m) EXCEPT !.pending = 0]
     IN  CASE turn.exc = "CancelledError" /\ turn.host = "app_gpt5" ->
                turn' = IF turn.tx = "open"
                          THEN [undone("cancel") EXCEPT !.tx = "cancelled", !.outcome = "cancelled"]
                          ELSE [called("cancel") EXCEPT !.outcome = "cancelled"]
           [] turn.exc = "CancelledError" /\ turn.host # "app_gpt5" ->
                turn' = [kept EXCEPT !.outcome = "cancelled"]
           [] turn.exc # "CancelledError" /\ turn.host = "app_gpt5" ->
                turn' = IF turn.tx = "open"
                          THEN [undone("rollback") EXCEPT !.tx = "rolled_back", !.outcome = "failed"]
                          ELSE [called("rollback") EXCEPT !.outcome = "failed"]
           [] OTHER ->
                turn' = IF turn.tx = "open"
                          THEN [undone("cancel") EXCEPT !.tx = "cancelled", !.outcome = "failed"]
                          ELSE [called("cancel") EXCEPT !.outcome = "failed"]
  /\ UNCHANGED ctxVars

\* a finally clause that leaves the transaction and the session as they are
FinallySkipsClose ==
  /\ turn.host \in TxHosts
  /\ turn.pc = "finally"
  /\ turn' = [turn EXCEPT !.pc = "exited"]
  /\ UNCHANGED ctxVars

\* finally: await tx.close(), then the session's async with block ends
Finally ==
  /\ turn.host \in TxHosts
  /\ turn.pc = "finally"
  /\ turn' = [turn EXCEPT !.tx = IF turn.tx = "open" THEN "rolled_back" ELSE turn.tx,
                          !.tx_calls = Append(turn.tx_calls, "close"),
                          !.pending = 0, !.tx_closed = TRUE, !.session = "closed", !.pc = "exited"]
  /\ UNCHANGED ctxVars

\* scraper.main: finally: await neo4jdriver.close()
Teardown ==
  /\ turn.host = "scraper"
  /\ turn.pc = "teardown"
  /\ turn' = [turn EXCEPT !.driver = "closed", !.pc = "exited"]
  /\ UNCHANGED ctxVars

\* the task of the turn is cancelled at the await it is suspended in
Cancel ==
  /\ turn.host \in Hosts
  /\ turn.pc \in {"sample", "op", "commit", "update"}
  /\ turn.pc = "op" => turn.stage \in {"llm", "lock_wait", "store"}
  /\ LET at == [turn EXCEPT !.locked = FALSE, !.exc = "CancelledError",
                            !.cancelled_in = IF turn.pc = "op" THEN "op" ELSE "turn"]
     IN  CASE turn.host \in TxHosts -> turn' = [at EXCEPT !.pc = "except"]
           [] turn.host = "scraper" -> turn' = [at EXCEPT !.outcome = "cancelled", !.pc = "teardown"]
           [] OTHER -> turn' = [at EXCEPT !.outcome = "cancelled", !.pc = "exited"]
  /\ UNCHANGED ctxVars

NextTurn ==
  \/ BeginTransaction
  \/ Sample
  \/ NextTool
  \/ ToolsDone
  \/ OpStep
  \/ OpFinish
  \/ Finish
  \/ Commit
  \/ Update
  \/ Except
  \/ Finally
  \/ Teardown
  \/ Cancel

SpecTurn == InitTurn /\ [][NextTurn]_vars

\* ---------------------------------------------------------------------
\* C14: a turn of on_message that finishes without an unrecovered
\* exception has committed its transaction exactly once, so every write of
\* its tool calls is durable; a turn that ends with an unrecovered
\* exception has rolled its transaction back and made nothing durable.
C14_CommitOnSuccessRollbackOnFailure ==
  (turn.host \in TxHosts /\ turn.pc = "exited" /\ turn.tx # "none") =>
    /\ turn.outcome = "completed" =>
         (turn.tx = "committed" /\ turn.commits = 1 /\ turn.durable = turn.written)
    /\ turn.outcome = "failed" =>
         (turn.tx \in {"rolled_back", "cancelled"} /\ turn.commits = 0 /\ turn.durable = 0)

\* C15: no partial graph mutation is committed: when a turn has ended in
\* a terminal failure, none of the writes its tool calls made earlier in
\* the turn is in the store.
\* Stated for the hosts whose whole turn, teardown included, is theirs.
C15_NoPartialMutation ==
  (turn.host \in {"scraper", "app_gpt5"} /\ turn.pc = "exited" /\ turn.outcome = "failed")
    => turn.durable = 0

\* C16: on every exit path of a turn (normal completion, exception,
\* cancellation) the teardown has run: a turn of on_message leaves only
\* through its finally clause once the transaction exists, and when it has
\* left, the transaction is closed and no longer open and the session is
\* closed; a turn of scraper.main has closed the driver.
C16_TeardownOnEveryExit ==
  /\ []((turn.host \in TxHosts /\ turn.pc = "exited") =>
          /\ turn.session = "closed"
          /\ turn.tx # "open"
          /\ turn.tx # "none" => turn.tx_closed)
  /\ []((turn.host = "scraper" /\ turn.pc = "exited") => turn.driver = "closed")
  /\ [][(turn.host \in TxHosts /\ turn.tx # "none" /\ turn.pc # "exited" /\ turn'.pc = "exited")
          => turn.pc = "finally"]_vars

\* a cancelled turn of on_message has left with its transaction and session closed
C16_Witness ==
  /\ turn.host = "app_gpt5"
  /\ turn.pc = "exited"
  /\ turn.outcome = "cancelled"
  /\ turn.cancelled_in = "op"
  /\ turn.written > 0
  /\ turn.tx_closed
  /\ turn.session = "closed"

\* C17: when a turn was cancelled while one of its operations was in
\* progress (waiting for or holding the lock, or awaiting a store or LLM
\* call), afterwards the lock is free, no transaction of the turn is left
\* open or committed, and none of the turn's writes is in the store.
C17_CancelRollsBackAndUnlocks ==
  (turn.host \in Hosts /\ turn.pc = "exited" /\ turn.cancelled_in = "op") =>
    /\ ~turn.locked
    /\ turn.tx \notin {"open", "committed"}
    /\ turn.durable = 0

\* C18: a transient store-unavailability error of a store operation is
\* surfaced to the caller only after the operation was tried again (more
\* than one attempt), and no other kind of failure is retried. Stated for
\* the operations that run ctx.tx.run in the turn's explicit transaction.
C18_TransientRetriedBeforeSurfacing ==
  [][(turn.host \in TxHosts /\ turn.pc = "op" /\ turn.stage = "store" /\ turn'.pc = "except") =>
       IF turn'.exc = "transient"
         THEN turn'.attempts > 1
         ELSE turn'.exc = "CancelledError" \/ turn'.attempts = 1]_vars

\* C19: an invalid read query passed to execute_cypher_query is handed
\* back to the caller as error data and does not abort the turn: the
\* turn goes on with its tool loop and the writes it made so far, pending
\* or durable, are kept.
C19_InvalidQueryIsData ==
  [][(/\ turn.host \in Hosts
      /\ turn.pc = "op"
      /\ turn.kind = "execute_cypher_query"
      /\ \/ turn'.exc = "invalid_query"
         \/ turn'.last = <<"error", "invalid_query">> /\ turn'.error_count = turn.error_count + 1)
     =>
     (/\ turn'.last = <<"error", "invalid_query">>
      /\ turn'.exc = None
      /\ turn'.pc \in {"tools", "sample"}
      /\ turn'.pending = turn.pending
      /\ turn'.durable = turn.durable)]_vars

\* a create_edge of the driver-based path failed on a missing endpoint
MissingEndpointFailure ==
  /\ turn.host \in Hosts \ TxHosts
  /\ turn.pc = "op"
  /\ turn.kind = "create_edge"
  /\ \/ turn'.exc = "missing_endpoint"
     \/ turn'.last = <<"error", "missing_endpoint">> /\ turn'.error_count = turn.error_count + 1

C21_NonPositiveDepthRejected ==
  \A t \in Tasks :
    (task[t].op = "dfs" /\ (task[t].depth <= 0 \/ ~Truthy(task[t].name))) =>
      (task[t].pc = "done" /\ task[t].result[1] = "ValueError" /\ task[t].attempts = 0)

\* C21 amended: dfs rejects a negative depth (depth < 0) and an empty
\* start name with a validation error raised before the lock is taken or
\* any store access is made, the store and the mapping table unchanged;
\* a call with a start name and depth >= 0, depth 0 included, is not
\* rejected by the validation.
C21_NegativeDepthRejected ==
  /\ [](\A t \in Tasks :
          task[t].op = "dfs" =>
            IF task[t].depth < 0 \/ ~Truthy(task[t].name)
              THEN task[t].pc = "done" /\ task[t].result[1] = "ValueError"
                     /\ task[t].attempts = 0 /\ lock # t
              ELSE task[t].result[1] # "ValueError")
  /\ [][\A t \in Tasks :
          (Free(t) /\ task'[t] # task[t] /\ task'[t].op = "dfs"
             /\ task'[t].result[1] = "ValueError")
          => UNCHANGED <<nodes, edges, node_name_mapping, lock>>]_vars

\* a dfs with depth -1 was rejected while the other task holds the lock,
\* and a dfs with depth 0 went on to the store
C21_Witness ==
  \E t, u \in Tasks :
    /\ task[t].op = "dfs" /\ task[t].depth = -1 /\ task[t].name = "A"
    /\ task[t].pc = "done" /\ task[t].result[1] = "ValueError"
    /\ task[u].op = "dfs" /\ task[u].depth = 0
    /\ lock = u /\ task[u].pc = "dfs_edges"

\* C22: a comparator response that does not parse counts as 'no match'
\* for that one candidate: the upsert keeps what it had found so far, goes
\* on with the next candidate, goes to create a new node when that was the
\* last candidate and nothing matched, and does not end or fail at it.
C22_ParseErrorIsNoMatch ==
  [][\A t \in Tasks :
       (task[t].pc = "compare" /\ task'[t].parse_errors = task[t].parse_errors + 1) =>
         /\ task'[t].idx = task[t].idx + 1
         /\ task'[t].verdicts = Append(task[t].verdicts, FALSE)
         /\ task'[t].found_same_name = task[t].found_same_name
         /\ task'[t].found_same_name = None
         /\ task'[t].updated_name = task[t].name
         /\ task'[t].updated_description = task[t].description
         /\ task'[t].result = task[t].result
         /\ task'[t].pc = IF task'[t].idx < Len(task[t].similar_nodes)
                            THEN "compare" ELSE "create_wait"
         /\ UNCHANGED <<nodes, edges, node_name_mapping, lock>>]_vars

\* both responses of an upsert with two candidates did not parse: the
\* upsert went on to the second candidate and then to create a new node
C22_Witness ==
  \E t \in Tasks :
    /\ task[t].parse_errors = 2
    /\ Len(task[t].similar_nodes) = 2
    /\ task[t].idx = 2
    /\ task[t].pc = "create_wait"

\* C23: in every reachable state every node that has an embedding has
\* the embedding computed from its current description, and every store
\* write that changes the description of such a node, or adds a node with
\* an embedding, writes the embedding of the new description with it.
C23_EmbeddingFollowsDescription ==
  /\ [](\A i \in DOMAIN nodes :
          nodes[i].embedding # NoEmb => nodes[i].embedding = Embed(nodes[i].description))
  /\ [][\A i \in DOMAIN nodes' :
          (/\ nodes'[i].embedding # NoEmb
           /\ i \in DOMAIN nodes => nodes'[i].description # nodes[i].description)
          => nodes'[i].embedding = Embed(nodes'[i].description)]_vars

\* a merge gave a stored node a description other than the incoming one,
\* and the node carries the embedding of that description
C23_Witness ==
  \E t \in Tasks :
    /\ task[t].op = "create_node"
    /\ task[t].pc = "done"
    /\ task[t].result[1] = "name"
    /\ task[t].found_id \in DOMAIN nodes
    /\ task[t].description = "d0"
    /\ nodes[task[t].found_id].description = "d1"
    /\ nodes[task[t].found_id].embedding = Embed("d1")

\* C24: in every state reachable by dedup upserts no two nodes of the
\* same semantic category have the same name.
C24_SemanticNamesUnique ==
  \A i, j \in DOMAIN nodes :
    (nodes[i].type \in SmartTypes /\ nodes[i].type = nodes[j].type
       /\ nodes[i].name = nodes[j].name) => i = j

\* ---------------------------------------------------------------------
\* The Contexts of a process: who makes a GraphOpsCtx, and for which turn

\* turns a process serves
MaxTurns == 3

\* mcp_server keeps one global _ctx; scraper.main and on_message make a
\* GraphOpsCtx for the turn they run
CtxHosts == {"mcp_server", "scraper", "app_gpt5"}

\* the process before its first turn: no Context made, _ctx is None (0).
\* History: recorded (the turn that wrote each entry), over (the turns
\* that ended) and earlier (the turns that were over when a turn began).
NewProcess(h) ==
  [host |-> h, global_ctx |-> 0, contexts |-> <<>>, recorded |-> <<>>,
   open |-> <<>>, started |-> 0, over |-> {}, earlier |-> <<>>]

InitContexts ==
  /\ nodes = <<>>
  /\ edges = EmptyBag
  /\ node_name_mapping = <<>>
  /\ lock = None
  /\ task = [t \in Tasks |-> IdleTask]
  /\ calls_left = 0
  /\ turn \in {NewProcess(h) : h \in CtxHosts}

\* f without the key k
Without(f, k) == [x \in (DOMAIN f) \ {k} |-> f[x]]

\* GraphOpsCtx(neo4jdriver, lock): __post_init__ gives it a dict of its own
WithNewContext(p) ==
  [p EXCEPT !.contexts = Append(p.contexts, <<>>),
            !.recorded = Append(p.recorded, <<>>)]

\* a turn begins: a request reaches the server, a message reaches
\* on_message, or scraper.main runs its one job
StartTurn ==
  /\ turn.host \in CtxHosts
  /\ turn.started < MaxTurns
  /\ turn.host = "scraper" => turn.started = 0
  /\ LET id == turn.started + 1
         p == [turn EXCEPT !.started = id, !.earlier = Append(turn.earlier, turn.over)]
     IN  IF turn.host = "mcp_server"
           THEN turn' = [p EXCEPT !.open = (id :> 0) @@ turn.open]
           ELSE turn' = [WithNewContext(p) EXCEPT
                           !.open = (id :> (Len(turn.contexts) + 1)) @@ turn.open]
  /\ UNCHANGED ctxVars

\* ctx = await get_context(): the first tool call of a request takes the
\* global Context, which the first use of all makes
GetContext ==
  /\ turn.host = "mcp_server"
  /\ \E id \in DOMAIN turn.open :
       /\ turn.open[id] = 0
       /\ IF turn.global_ctx = 0
            THEN turn' = [WithNewContext(turn) EXCEPT
                            !.global_ctx = Len(turn.contexts) + 1,
                            !.open[id] = Len(turn.contexts) + 1]
            ELSE turn' = [turn EXCEPT !.open[id] = turn.global_ctx]
  /\ UNCHANGED ctxVars

\* a create_node of turn id: ctx.node_name_mapping[name] = actual_name
RecordingCall ==
  /\ turn.host \in CtxHosts
  /\ \E id \in DOMAIN turn.open, n \in Names, a \in Names :
       LET c == turn.open[id]
       IN /\ c # 0
          /\ turn' = [turn EXCEPT !.contexts[c] = Record(turn.contexts[c], n, a),
                                  !.recorded[c] = Record(turn.recorded[c], n, id)]
  /\ UNCHANGED ctxVars

\* the turn is over
EndTurn ==
  /\ turn.host \in CtxHosts
  /\ \E id \in DOMAIN turn.open :
       turn' = [turn EXCEPT !.open = Without(turn.open, id), !.over = turn.over \cup {id}]
  /\ UNCHANGED ctxVars

NextContexts ==
  \/ StartTurn
  \/ GetContext
  \/ RecordingCall
  \/ EndTurn

SpecContexts == InitContexts /\ [][NextContexts]_vars

\* C25: a new Context starts with an empty Name Mapping Table of its
\* own, the key set of a table never shrinks, and a turn that works on a
\* Context sees in its table no entry that an earlier turn, now over,
\* recorded.
C25_MappingPerTurn ==
  /\ [][/\ Len(turn'.contexts) > Len(turn.contexts) =>
             turn'.contexts[Len(turn'.contexts)] = <<>>
        /\ \A c \in DOMAIN turn.contexts :
             DOMAIN turn.contexts[c] \subseteq DOMAIN turn'.contexts[c]]_vars
  /\ [](\A id \in DOMAIN turn.open :
          turn.open[id] # 0 =>
            \A k \in DOMAIN turn.contexts[turn.open[id]] :
              turn.recorded[turn.open[id]][k] \notin turn.earlier[id])

\* C26: a Context is used by at most one turn at a time, each turn
\* having a Context of its own: no two turns in progress work on the same
\* Context.
C26_OneTurnPerContext ==
  \A id, other \in DOMAIN turn.open :
    (id # other /\ turn.open[id] # 0) => turn.open[id] # turn.open[other]

\* does a value of a result hold a raw vector, at any depth
RECURSIVE HasVector(_)
HasVector(obj) ==
  CASE obj.kind = "vector" -> TRUE
    [] obj.kind = "dict" -> \E k \in DOMAIN obj.items : HasVector(obj.items[k])
    [] obj.kind = "list" -> \E i \in DOMAIN obj.items : HasVector(obj.items[i])
    [] OTHER -> FALSE

\* C27: no result returned by find_node, execute_cypher_query or dfs
\* contains a raw embedding vector, at any nesting depth.
C27_NoEmbeddingLeaves ==
  \A t \in Tasks :
    /\ (task[t].op = "execute_cypher_query" /\ task[t].result[1] = "records") =>
         \A i \in DOMAIN task[t].result[2] : ~HasVector(task[t].result[2][i])
    /\ (task[t].op = "find_node" /\ task[t].result[1] = "rows") =>
         \A i \in DOMAIN task[t].result[2] : ~HasVector(task[t].result[2][i].node)
    /\ (task[t].op = "dfs" /\ task[t].result[1] = "dfs") =>
         \A n \in task[t].result[2].nodes : DOMAIN n = {"name", "description"}

\* ---------------------------------------------------------------------
\* dfs over the graphs earlier turns left in the store

\* three stored nodes: 'A', a middle node that is an Idea or an EmTech,
\* and a third Idea
TraverseStores ==
  {<<[type |-> "Idea", name |-> "A", description |-> "d0", embedding |-> Embed("d0")],
     [type |-> ty, name |-> "B", description |-> "d1", embedding |-> Embed("d1")],
     [type |-> "Idea", name |-> "C", description |-> "d3", embedding |-> Embed("d3")]>> :
       ty \in {"Idea", "EmTech"}}

\* the relationships the store may hold between them
TraverseRels ==
  {[source |-> r[1], target |-> r[2], type |-> "ENABLES", properties |-> {}] :
     r \in {<<1, 2>>, <<3, 2>>, <<1, 3>>}}

InitTraverse ==
  /\ nodes \in TraverseStores
  /\ edges \in {SetToBag(S) : S \in SUBSET TraverseRels}
  /\ node_name_mapping = <<>>
  /\ lock = None
  /\ task = [t \in Tasks |-> IdleTask]
  /\ calls_left = MaxCalls
  /\ turn = NoTurn

NextTraverse ==
  \E t \in Tasks :
    \/ Dfs(t)
    \/ Acquire(t)
    \/ DfsNodes(t)
    \/ DfsEdges(t)

SpecTraverse == InitTraverse /\ [][NextTraverse]_vars

\* two stored nodes are joined by a relationship, in either direction
Linked(es, i, j) ==
  \E e \in BagToSet(es) :
    \/ e.source = i /\ e.target = j
    \/ e.source = j /\ e.target = i

\* the walks of at most d hops from a start node on which no node but the
\* first and the last is an EmTech
Walks(ns, es, starts, d) ==
  {p \in UNION {[1..k -> DOMAIN ns] : k \in 1..(d + 1)} :
     /\ p[1] \in starts
     /\ \A i \in 1..(Len(p) - 1) : Linked(es, p[i], p[i + 1])
     /\ \A i \in 2..(Len(p) - 1) : ns[p[i]].type # "EmTech"}

\* C28: dfs with depth d returns only nodes within d hops of the start
\* node and relationships that lie on a walk of at most d hops from it,
\* and none of them is reached only through an EmTech node.
C28_TraversalBounded ==
  \A t \in Tasks :
    (task[t].op = "dfs" /\ task[t].result[1] = "dfs") =>
      LET ws == Walks(nodes, edges, Matched(nodes, task[t].node_type, task[t].name),
                      task[t].depth)
      IN /\ \A n \in task[t].result[2].nodes :
              \E p \in ws : /\ nodes[p[Len(p)]].name = n.name
                            /\ nodes[p[Len(p)]].description = n.description
         /\ \A r \in task[t].result[2].edges :
              \E p \in ws : \E i \in 1..(Len(p) - 1) :
                 \E e \in BagToSet(edges) :
                    /\ {e.source, e.target} = {p[i], p[i + 1]}
                    /\ e.type = r.relationship
                    /\ nodes[e.source].name = r.source_node_name
                    /\ nodes[e.target].name = r.end_node_name

\* a dfs of depth 1 from 'A' on the chain A - B - C returned A and B and
\* the one relationship between them, not C
C28_Witness ==
  \E t \in Tasks :
    /\ task[t].op = "dfs" /\ task[t].result[1] = "dfs" /\ task[t].depth = 1
    /\ nodes[2].type = "Idea"
    /\ BagToSet(edges) = {e \in TraverseRels : e.target = 2}
    /\ {n.name : n \in task[t].result[2].nodes} = {"A", "B"}
    /\ Cardinality(task[t].result[2].edges) = 1

\* the positions of a dedup upsert at which it awaits the embedding
\* service or the comparator
AwaitingService == {"embed", "compare", "reembed"}

\* C29: a task that awaits an embedding call or a comparator call inside
\* a dedup upsert does not hold the Context lock, before or after the call
\* returns; inside a dedup upsert the lock is held only for the candidate
\* read, which changes nothing, and for the store write, which ends with
\* the mapping-table update and the release of the lock in the same block.
C29_LockNotHeldWhileAwaiting ==
  [][\A t \in Tasks :
       /\ task[t].pc \in AwaitingService => (lock # t /\ lock' # t)
       /\ (task[t].op = "create_node" /\ task[t].node_type \in SmartTypes
           /\ lock = t) => task[t].pc \in {"read", "update", "create"}
       /\ (task[t].pc = "read" /\ task'[t].pc # "read") =>
            /\ lock = t /\ lock' = None
            /\ UNCHANGED <<nodes, edges, node_name_mapping>>
       /\ (task[t].pc \in {"update", "create"} /\ task'[t].pc # task[t].pc) =>
            /\ lock = t /\ lock' = None
            /\ task'[t].result[1] = "name" =>
                 /\ task[t].name \in DOMAIN node_name_mapping'
                 /\ node_name_mapping'[task[t].name] = task'[t].result[2]]_vars

\* one task awaits the comparator while the other holds the lock for its
\* store write
C29_Witness ==
  \E t, u \in Tasks :
    /\ task[t].pc = "compare" /\ lock = u /\ u # t
    /\ task[u].pc \in {"update", "create"}

\* ---------------------------------------------------------------------
\* a dedup upsert on a store whose index holds more nodes than the
\* candidate limit

IndexNames == <<"N0", "N1", "N2", "N3", "N4", "N5", "N6", "N7", "N8", "N9",
                "N10", "N11">>

\* the store earlier turns left: twelve Ideas with descriptions "v0" .. "v11"
FilledStore ==
  [k \in DOMAIN IndexDescs |->
     [type |-> "Idea", name |-> IndexNames[k], description |-> IndexDescs[k],
      embedding |-> Embed(IndexDescs[k])]]

\* a new Context on the filled store, with one create_node call to make
InitCandidates ==
  /\ nodes = FilledStore
  /\ edges = EmptyBag
  /\ node_name_mapping = <<>>
  /\ lock = None
  /\ task = [t \in Tasks |-> IdleTask]
  /\ calls_left = 1
  /\ turn = NoTurn

NextCandidates ==
  \E t \in Tasks :
    \/ CreateNode(t)
    \/ EmbedNew(t)
    \/ Acquire(t)
    \/ ReadSimilar(t)
    \/ Compare(t)
    \/ EmbedUpdated(t)
    \/ WriteUpdate(t)

SpecCandidates == InitCandidates /\ [][NextCandidates]_vars

\* C30: every candidate a dedup upsert passes to the comparator has a
\* similarity score of at least 0.8, the upsert holds at most 10
\* candidates and so makes at most 10 comparator calls, and each candidate
\* it visits scores no higher than the one visited before it; the score
\* of a candidate is the similarity of the stored node to the incoming
\* description at the candidate read.
C30_CandidatesBounded ==
  [][\A t \in Tasks :
       /\ (task[t].pc = "read" /\ task'[t].pc # "read") =>
            \A k \in DOMAIN task'[t].similar_nodes :
               LET sim == task'[t].similar_nodes[k]
               IN /\ sim.id \in Indexed(nodes, task[t].node_type)
                  /\ sim.score = Score(nodes[sim.id].embedding, task[t].new_embedding)
       /\ (task[t].pc = "compare" /\ task'[t] # task[t]) =>
            LET k == task'[t].idx
                sims == task[t].similar_nodes
            IN /\ k = task[t].idx + 1
               /\ k <= 10
               /\ Len(sims) <= 10
               /\ Len(task'[t].verdicts) = k
               /\ sims[k].score >= 80
               /\ k > 1 => sims[k - 1].score >= sims[k].score]_vars

\* the tenth comparator call of an upsert whose index held eleven nodes at
\* or above the threshold and one below it
C30_Witness ==
  \E t \in Tasks :
    /\ task[t].idx = 10 /\ Len(task[t].verdicts) = 10
    /\ Cardinality({i \in DOMAIN nodes :
          Score(nodes[i].embedding, task[t].new_embedding) >= 80}) = 11
    /\ \E i \in DOMAIN nodes :
          Score(nodes[i].embedding, task[t].new_embedding) = 79

\* ---------------------------------------------------------------------
\* a Context whose collaborators fail: the Embedding Client raises

\* an upsert that goes on to create the node when the embedding call fails
EmbedNewFailsAsNoCandidates(t) ==
  /\ task[t].pc = "embed"
  /\ Len(nodes) + Cardinality(Creators) < MaxNodes
  /\ task' = [task EXCEPT ![t].pc = "create_wait"]
  /\ UNCHANGED <<nodes, edges, node_name_mapping, lock, calls_left>>
  /\ UNCHANGED turn

\* emb_response = await openai_embedding_client.embeddings.create(...)
\* raises; except Exception as e: logging.error(...); raise
EmbedNewFails(t) ==
  /\ task[t].pc = "embed"
  /\ task' = [task EXCEPT ![t] = Return(t, "raised", "EmbeddingError")]
  /\ UNCHANGED <<nodes, edges, node_name_mapping, lock, calls_left>>
  /\ UNCHANGED turn

\* updated_emb_response = await openai_embedding_client.embeddings.create(...)
\* raises; except Exception as e: logging.error(...); raise
EmbedUpdatedFails(t) ==
  /\ task[t].pc = "reembed"
  /\ task' = [task EXCEPT ![t] = Return(t, "raised", "EmbeddingError")]
  /\ UNCHANGED <<nodes, edges, node_name_mapping, lock, calls_left>>
  /\ UNCHANGED turn

\* the positions at which a task is inside a lock block, awaiting a store
\* call that may raise (RunQuery has its own error branch)
StoreCalls == {"read", "update", "create", "merge", "check", "diag", "write",
               "find", "dfs_nodes", "dfs_edges"}

\* a store call that raises after the mapping entry was recorded
StoreCallRaisesAfterRecording(t) ==
  /\ task[t].pc \in StoreCalls
  /\ lock = t
  /\ task' = [task EXCEPT ![t] = Return(t, "raised", "StoreError")]
  /\ node_name_mapping' =
       IF task[t].op = "create_node"
       THEN Record(node_name_mapping, task[t].name, task[t].name)
       ELSE node_name_mapping
  /\ lock' = None
  /\ UNCHANGED <<nodes, edges, calls_left>>
  /\ UNCHANGED turn

\* session.execute_read / execute_write raises inside "async with
\* ctx.lock": the block is left, the error goes to the caller
StoreCallRaises(t) ==
  /\ task[t].pc \in StoreCalls
  /\ lock = t
  /\ task' = [task EXCEPT ![t] = Return(t, "raised", "StoreError")]
  /\ lock' = None
  /\ UNCHANGED <<nodes, edges, node_name_mapping, calls_left>>
  /\ UNCHANGED turn

NextFaults ==
  \/ Next
  \/ \E t \in Tasks :
       \/ EmbedNewFails(t)
       \/ EmbedUpdatedFails(t)
       \/ StoreCallRaises(t)

SpecFaults == Init /\ [][NextFaults]_vars

\* C31: a dedup upsert leaves an embedding call either with the embedding
\* of the description it sent or by raising the client's error with the
\* store and the mapping table as they were; no upsert goes on to read
\* candidates or to write a node with an embedding it did not get.
C31_EmbeddingFailureRaises ==
  /\ [][\A t \in Tasks :
          /\ (task[t].pc = "embed" /\ task'[t] # task[t]) =>
               \/ /\ task'[t].pc = "read_wait"
                  /\ task'[t].new_embedding = Embed(task[t].description)
               \/ /\ task'[t].pc = "done"
                  /\ task'[t].result = <<"raised", "EmbeddingError">>
                  /\ UNCHANGED <<nodes, edges, node_name_mapping>>
          /\ (task[t].pc = "reembed" /\ task'[t] # task[t]) =>
               \/ /\ task'[t].pc = "update_wait"
                  /\ task'[t].new_embedding = Embed(task[t].updated_description)
               \/ /\ task'[t].pc = "done"
                  /\ task'[t].result = <<"raised", "EmbeddingError">>
                  /\ UNCHANGED <<nodes, edges, node_name_mapping>>]_vars
  /\ [](\A t \in Tasks :
          /\ task[t].pc \in {"read_wait", "read", "compare", "create_wait", "create"}
               => task[t].new_embedding = Embed(task[t].description)
          /\ task[t].pc \in {"update_wait", "update"}
               => task[t].new_embedding = Embed(task[t].updated_description))

\* the re-embedding of a merged description failed after a match: the
\* matched node is as it was and the caller's name is not in the table
C31_Witness ==
  \E t \in Tasks :
    /\ task[t].pc = "done" /\ task[t].result = <<"raised", "EmbeddingError">>
    /\ task[t].found_id # 0
    /\ task[t].name \notin DOMAIN node_name_mapping
    /\ nodes = <<[type |-> "Idea", name |-> "A", description |-> "d0",
                 embedding |-> Embed("d0")]>>

\* ---------------------------------------------------------------------
\* the read operations, with execute_cypher_query in its two variants:
\* core_graph_ops (validated, session.execute_read) and graph_ops (the
\* query text handed to the open read-write transaction of the turn)

WriteQuery == "CREATE (n:Idea {name: 'B'})"

\* the query texts a caller may supply
CallerQueries == Queries \cup {WriteQuery}

\* graph_ops.execute_cypher_query up to its first await: no validation
TxExecuteCypherQuery(t) ==
  /\ Free(t)
  /\ t = "t2" => ~Free("t1")
  /\ calls_left > 0
  /\ \E q \in CallerQueries :
       task' = [task EXCEPT ![t] =
          [IdleTask EXCEPT !.op = "execute_cypher_query", !.query = q,
                           !.pc = "tx_query_wait"]]
  /\ calls_left' = calls_left - 1
  /\ UNCHANGED <<nodes, edges, node_name_mapping, lock>>
  /\ UNCHANGED turn

\* what ctx.tx.run(query) does to the nodes of the store
TxRun(ns, query) ==
  IF query = WriteQuery
  THEN Append(ns, [type |-> "Idea", name |-> "B", description |-> None,
                   embedding |-> NoEmb])
  ELSE ns

\* async with ctx.lock: result = await ctx.tx.run(query); records = await result.data()
TxRunQuery(t) ==
  /\ task[t].pc = "tx_query"
  /\ lock = t
  /\ LET q == task[t].query
     IN IF q \in Queries /\ ~validate_cypher_query(q)
        THEN \* the store rejects the text: RuntimeError
             /\ task' = [task EXCEPT ![t] =
                  Return(t, "raised", "Error executing Cypher query")]
             /\ UNCHANGED nodes
        ELSE /\ q = WriteQuery => Len(nodes) + Cardinality(Creators) < MaxNodes
             /\ nodes' = TxRun(nodes, q)
             /\ task' = [task EXCEPT ![t] =
                  Return(t, "records",
                     IF q = WriteQuery THEN <<>>
                     ELSE [i \in DOMAIN QueryData(nodes, q) |->
                             filter_embedding(QueryData(nodes, q)[i])])]
  /\ lock' = None
  /\ UNCHANGED <<edges, node_name_mapping, calls_left>>
  /\ UNCHANGED turn

NextReads ==
  \E t \in Tasks :
    \/ Acquire(t)
    \/ ExecuteCypherQuery(t)
    \/ RunQuery(t)
    \/ TxExecuteCypherQuery(t)
    \/ TxRunQuery(t)
    \/ FindNode(t)
    \/ EmbedQuery(t)
    \/ FindRead(t)
    \/ Dfs(t)
    \/ DfsNodes(t)
    \/ DfsEdges(t)

SpecReads == Init /\ [][NextReads]_vars

\* C32: no step of a find_node, execute_cypher_query or dfs call changes
\* the nodes or relationships of the store or the Name Mapping Table,
\* whatever query text the caller supplied.
C32_ReadsChangeNothing ==
  [][\A t \in Tasks :
       (task[t].op \in {"find_node", "execute_cypher_query", "dfs"}
        /\ task'[t] # task[t] /\ task'[t].op = task[t].op)
          => UNCHANGED <<nodes, edges, node_name_mapping>>]_vars

\* ---------------------------------------------------------------------
\* the task list of a chat session (function_tools/task_ops.py)

MaxPlanned == 2

Titles == {"T1", "T2", "T3"}

\* the lists of titles a caller may plan
PlannedLists == UNION {[1..n -> Titles] : n \in 0..MaxPlanned}

\* a session before its first task call: no 'task_list', no 'tasks'.
\* tasks: title -> status of its Task; task_list: the titles of
\* task_list.tasks, in order; sent: the entries of the last TaskList sent
NewSession ==
  [host |-> "task_ops", has_task_list |-> FALSE, task_list |-> <<>>,
   tasks |-> <<>>, sent |-> <<>>,
   last_op |-> None, planned_tasks |-> <<>>, task_title |-> None]

InitTasks ==
  /\ nodes = <<>>
  /\ edges = EmptyBag
  /\ node_name_mapping = <<>>
  /\ lock = None
  /\ task = [t \in Tasks |-> IdleTask]
  /\ calls_left = 0
  /\ turn = NewSession

\* await task_list.send(): the tasks of the list with their statuses
Send(task_list, tasks_dict) ==
  [i \in DOMAIN task_list |->
     [title |-> task_list[i], status |-> tasks_dict[task_list[i]]]]

\* done_tasks = {title: task for ... if task.status == DONE}
DoneTasks(tasks_dict) ==
  [title \in {x \in DOMAIN tasks_dict : tasks_dict[x] = "DONE"} |-> tasks_dict[title]]

\* "for task_title in planned_tasks", from position i on: the new
\* dictionary and the new task list
RECURSIVE AddPlanned(_, _, _, _)
AddPlanned(planned_tasks, i, new_tasks_dict, task_list) ==
  IF i > Len(planned_tasks)
  THEN [tasks |-> new_tasks_dict, task_list |-> task_list]
  ELSE LET task_title == planned_tasks[i]
       IN IF task_title \notin DOMAIN new_tasks_dict
          THEN AddPlanned(planned_tasks, i + 1,
                          new_tasks_dict @@ (task_title :> "READY"),
                          Append(task_list, task_title))
          ELSE IF new_tasks_dict[task_title] # "DONE"
          THEN AddPlanned(planned_tasks, i + 1,
                          [new_tasks_dict EXCEPT ![task_title] = "READY"], task_list)
          ELSE AddPlanned(planned_tasks, i + 1, new_tasks_dict, task_list)

\* a plan_tasks that rewrites the dictionary without preserving done tasks
PlanTasksFromScratch ==
  /\ turn.host = "task_ops"
  /\ \E planned_tasks \in PlannedLists :
       LET new == AddPlanned(planned_tasks, 1, <<>>, <<>>)
       IN turn' = [turn EXCEPT
            !.has_task_list = TRUE,
            !.task_list = new.task_list,
            !.tasks = new.tasks,
            !.sent = Send(new.task_list, new.tasks),
            !.last_op = "plan_tasks", !.planned_tasks = planned_tasks,
            !.task_title = None]
  /\ UNCHANGED ctxVars

PlanTasks ==
  /\ turn.host = "task_ops"
  /\ \E planned_tasks \in PlannedLists :
       LET new == AddPlanned(planned_tasks, 1, DoneTasks(turn.tasks), <<>>)
       IN turn' = [turn EXCEPT
            !.has_task_list = TRUE,
            !.task_list = new.task_list,
            !.tasks = new.tasks,
            !.sent = Send(new.task_list, new.tasks),
            !.last_op = "plan_tasks", !.planned_tasks = planned_tasks,
            !.task_title = None]
  /\ UNCHANGED ctxVars

\* if task_title in tasks_dict and its status is not DONE: DONE, send
MarkTaskAsDone ==
  /\ turn.host = "task_ops"
  /\ \E task_title \in Titles :
       LET hit == task_title \in DOMAIN turn.tasks /\ turn.tasks[task_title] # "DONE"
           tasks_dict == IF hit THEN [turn.tasks EXCEPT ![task_title] = "DONE"]
                         ELSE turn.tasks
       IN turn' = [turn EXCEPT
            !.tasks = tasks_dict,
            !.sent = IF hit /\ turn.has_task_list
                     THEN Send(turn.task_list, tasks_dict) ELSE turn.sent,
            !.last_op = "mark_task_as_done", !.planned_tasks = <<>>,
            !.task_title = task_title]
  /\ UNCHANGED ctxVars

\* if task_title in tasks_dict and its status is not DONE: RUNNING, send
MarkTaskAsRunning ==
  /\ turn.host = "task_ops"
  /\ \E task_title \in Titles :
       LET hit == task_title \in DOMAIN turn.tasks /\ turn.tasks[task_title] # "DONE"
           tasks_dict == IF hit THEN [turn.tasks EXCEPT ![task_title] = "RUNNING"]
                         ELSE turn.tasks
       IN turn' = [turn EXCEPT
            !.tasks = tasks_dict,
            !.sent = IF hit /\ turn.has_task_list
                     THEN Send(turn.task_list, tasks_dict) ELSE turn.sent,
            !.last_op = "mark_task_as_running", !.planned_tasks = <<>>,
            !.task_title = task_title]
  /\ UNCHANGED ctxVars

MarkAllTasksAsDone ==
  /\ turn.host = "task_ops"
  /\ LET any_changed == \E x \in DOMAIN turn.tasks : turn.tasks[x] # "DONE"
         tasks_dict == [x \in DOMAIN turn.tasks |-> "DONE"]
     IN turn' = [turn EXCEPT
          !.tasks = tasks_dict,
          !.sent = IF any_changed /\ turn.has_task_list
                   THEN Send(turn.task_list, tasks_dict) ELSE turn.sent,
          !.last_op = "mark_all_tasks_as_done", !.planned_tasks = <<>>,
          !.task_title = None]
  /\ UNCHANGED ctxVars

NextTasks ==
  \/ PlanTasks
  \/ MarkTaskAsDone
  \/ MarkTaskAsRunning
  \/ MarkAllTasksAsDone

SpecTasks == InitTasks /\ [][NextTasks]_vars

\* C33: a task whose status is DONE stays in the session's task
\* dictionary with the status DONE through every plan_tasks,
\* mark_task_as_running, mark_task_as_done and mark_all_tasks_as_done call.
C33_DoneIsAbsorbing ==
  [][\A x \in DOMAIN turn.tasks :
       turn.tasks[x] = "DONE" =>
          (x \in DOMAIN turn'.tasks /\ turn'.tasks[x] = "DONE")]_vars

\* mark_task_as_running was called for a task that is DONE, next to a
\* planned task that is READY
C33_Witness ==
  /\ turn.last_op = "mark_task_as_running"
  /\ turn.task_title = "T1"
  /\ "T1" \in DOMAIN turn.tasks /\ turn.tasks["T1"] = "DONE"
  /\ "T2" \in DOMAIN turn.tasks /\ turn.tasks["T2"] = "READY"

\* the titles of the entries of a sent TaskList
Shown(sent) == {sent[i].title : i \in DOMAIN sent}

\* C34: the TaskList that plan_tasks(planned_tasks) sends has an entry for
\* every task that was DONE before the call and for every planned title.
C34_PlanShowsDoneAndPlanned ==
  [][(turn'.last_op = "plan_tasks" /\ turn' # turn) =>
       /\ \A x \in DOMAIN turn.tasks :
            turn.tasks[x] = "DONE" => x \in Shown(turn'.sent)
       /\ \A i \in DOMAIN turn'.planned_tasks :
            turn'.planned_tasks[i] \in Shown(turn'.sent)]_vars

\* the positions of the node writes of create_node
NodeWrites == {"update", "create", "merge"}

\* C35: the Name Mapping Table changes only in the step in which a
\* create_node call, holding the lock, ends its store write with a name,
\* and the entry is that call's name mapped to the name returned; a write
\* that fails leaves the table and the nodes as they were; and every step
\* that changes the nodes of the store records the entry of its call in
\* the same step, before the lock is free again.
C35_MappingFollowsWrite ==
  [][/\ node_name_mapping' # node_name_mapping =>
          \E t \in Tasks :
             /\ lock = t /\ lock' = None
             /\ task[t].pc \in NodeWrites
             /\ task'[t].result[1] = "name"
             /\ node_name_mapping' =
                  Record(node_name_mapping, task[t].name, task'[t].result[2])
     /\ \A t \in Tasks :
          (task[t].pc \in NodeWrites /\ task'[t].pc = "done"
           /\ task'[t].result[1] # "name")
             => UNCHANGED <<nodes, node_name_mapping>>
     /\ nodes' # nodes =>
          \E t \in Tasks :
             /\ lock = t /\ lock' = None
             /\ task[t].pc \in NodeWrites
             /\ task[t].name \in DOMAIN node_name_mapping'
             /\ node_name_mapping'[task[t].name] = task'[t].result[2]]_vars

\* the update write of a create_node call for 'B' failed after its match,
\* in a Context in which an earlier call had recorded 'A': the table holds
\* that entry only
C35_Witness ==
  \E t \in Tasks :
    /\ task[t].op = "create_node" /\ task[t].pc = "done"
    /\ task[t].result = <<"raised", "StoreError">>
    /\ task[t].found_id # 0
    /\ task[t].name = "B"
    /\ DOMAIN node_name_mapping = {"A"}

\* C36: when a create_node call returns a name, the Name Mapping Table
\* resolves the caller's name to that name whatever the category of the
\* call and whatever the table held for the name before (the last upsert
\* of a name wins), and the entries of the other names are as they were.
C36_LastUpsertOfNameWins ==
  [][\A t \in Tasks :
       (task[t].op = "create_node" /\ task[t].pc # "done"
        /\ task'[t].pc = "done" /\ task'[t].result[1] = "name") =>
          /\ Resolve(node_name_mapping', task[t].name) = task'[t].result[2]
          /\ DOMAIN node_name_mapping' = DOMAIN node_name_mapping \cup {task[t].name}
          /\ \A k \in DOMAIN node_name_mapping :
               k # task[t].name => node_name_mapping'[k] = node_name_mapping[k]]_vars

\* create_node('Idea', 'B', ...) was merged into the stored Idea 'A' and
\* recorded B -> A; the later create_node('Party', 'B', ...) of the same
\* task returned 'B', and the table now resolves B to B
C36_Witness ==
  /\ task["t1"].op = "create_node" /\ task["t1"].pc = "done"
  /\ task["t1"].node_type = "Party" /\ task["t1"].name = "B"
  /\ task["t1"].result = <<"name", "B">>
  /\ task["t2"].op = "none"
  /\ calls_left = 0
  /\ Len(nodes) = 2
  /\ nodes[1].type = "Idea" /\ nodes[1].name = "A" /\ nodes[1].description = "d1"
  /\ DOMAIN node_name_mapping = {"B"}
  /\ node_name_mapping["B"] = "B"

\* the positions of a method in the calls made on the transaction
CallsOf(tn, m) == {i \in DOMAIN tn.tx_calls : tn.tx_calls[i] = m}

\* C37: on the transaction of a turn, commit and rollback or cancel are
\* never both called, no rollback or cancel follows a commit that
\* succeeded, and a turn that has exited called begin first, close last
\* and at most one of commit, rollback and cancel in between.
C37_TransactionLifecycle ==
  (turn.host \in TxHosts) =>
     /\ CallsOf(turn, "commit") = {}
          \/ CallsOf(turn, "rollback") \cup CallsOf(turn, "cancel") = {}
     /\ turn.tx = "committed" =>
          CallsOf(turn, "rollback") \cup CallsOf(turn, "cancel") = {}
     /\ (turn.pc = "exited" /\ turn.tx_calls # <<>>) =>
          /\ turn.tx_calls[1] = "begin"
          /\ turn.tx_calls[Len(turn.tx_calls)] = "close"
          /\ Len(turn.tx_calls) <= 3

\* ---------------------------------------------------------------------
\* progress of the operations of one Context

\* the steps of a task between the calls that start its operations: an
\* embedding, comparator or store call of the task returns or raises
Progress(t) ==
  \/ EmbedNew(t) \/ ReadSimilar(t) \/ Compare(t) \/ EmbedUpdated(t)
  \/ WriteUpdate(t) \/ WriteCreate(t) \/ WriteMerge(t)
  \/ CheckNodes(t) \/ Diagnose(t) \/ WriteEdge(t)
  \/ RunQuery(t) \/ EmbedQuery(t) \/ FindRead(t)
  \/ DfsNodes(t) \/ DfsEdges(t)
  \/ EmbedNewFails(t) \/ EmbedUpdatedFails(t) \/ StoreCallRaises(t)

\* every awaited call comes back, and asyncio.Lock wakes its waiters in
\* the order in which they came, so a waiter is not passed over for ever
Fairness ==
  \A t \in Tasks : WF_vars(Progress(t)) /\ SF_vars(Acquire(t))

SpecLive == NewContext(2) /\ [][NextFaults]_vars /\ Fairness

\* C38: no task asks for the Context lock while it holds it; a task holds
\* the lock only inside a store call and has released it when its
\* operation returns or raises; and, every store call coming back, a task
\* that waits for the lock gets it.
C38_LockReleasedAndAcquired ==
  /\ [](\A t \in Tasks : task[t].pc \in WaitPcs => lock # t)
  /\ [](\A t \in Tasks : lock = t => task[t].pc \in StoreCalls \cup {"query"})
  /\ [][\A t \in Tasks : (lock = t /\ task'[t].pc = "done") => lock' = None]_vars
  /\ \A t \in Tasks : (task[t].pc \in WaitPcs) ~> (lock = t)

\* a create_edge call waits for the lock for its write while the other
\* task holds the lock in a store call
C38_Witness ==
  \E t, u \in Tasks :
    /\ task[t].pc = "write_wait"
    /\ lock = u /\ u # t /\ task[u].pc \in StoreCalls

\* C39: a create_edge call that returns a relationship added at most one
\* relationship to the store, and exactly one when no relationship of its
\* type and properties existed between nodes of the resolved names.
C39_OneRelationshipPerCall ==
  [][\A t \in Tasks :
       (task[t].pc = "write" /\ task'[t].pc = "done"
        /\ task'[t].result[1] = "edge") =>
          LET rows == EndpointRows(nodes, task[t].actual_source_name,
                                   task[t].actual_target_name)
              existed == \E q \in rows :
                 RelMatches(edges, q[1], q[2], task[t].relationship_type,
                            task[t].properties) # {}
          IN /\ BagCardinality(edges') <= BagCardinality(edges) + 1
             /\ ~existed => BagCardinality(edges') = BagCardinality(edges) + 1]_vars

\* C40: in the loops of scraper.process and
\* chainlit_xai_util.process_stream, while the tool calls of a response
\* are worked off every call handled so far has exactly one tool_result in
\* the chat, and when the model is sampled again every tool call of the
\* response before has one.  (batch: the tool calls of the last response;
\* results: the tool_results appended since it.)
C40_OneResultPerToolCall ==
  (turn.host \in {"scraper", "chainlit_xai_util"}) =>
     /\ turn.pc = "tools" => turn.results + turn.todo = turn.batch
     /\ turn.pc = "sample" => turn.results = turn.batch

====
